---------------------------- MODULE Spec2Model ----------------------------
(***************************************************************************)
(* Widget descriptors of src/page_elements.py as state machines over an    *)
(* abstract driver.  Each widget kind has one variable holding the fields  *)
(* of the descriptor, the part of the page it reads, the position of the   *)
(* running operation, and a log or a count of the calls it issued to the   *)
(* driver.  What the driver answers to a call is an input of the step that *)
(* issues the call.  A driver call can raise where the code catches the    *)
(* exception; a call the code leaves unguarded is taken to be honoured,    *)
(* but for the force-click of a button, the combobox's wait for the first  *)
(* child of its lookup context and the calls of its finally clause, the    *)
(* wait and click of a radio selection, the second lookup and the read of  *)
(* a query, and the widget read of a timed lookup, whose failures decide   *)
(* how the operation ends and what it leaves behind.                       *)
(* Each widget kind has its own specification over the shared variables.   *)
(***************************************************************************)
EXTENDS Integers, Sequences, FiniteSets, TLC

VARIABLES button, checkbox, toggled, table, dropdown, pager, combobox, wait, positive, negative, radio, registry, construct, query, timed

vars == <<button, checkbox, toggled, table, dropdown, pager, combobox, wait, positive, negative, radio, registry, construct, query, timed>>

(* Number of positions of the log s that hold the event e. *)
Count(s, e) == Cardinality({i \in DOMAIN s : s[i] = e})

(* Positions of the log s that hold the event e. *)
Positions(s, e) == {i \in DOMAIN s : s[i] = e}

(***************************************************************************)
(* Button                                                                  *)
(***************************************************************************)

(* Largest retry_attempts argument a caller passes to Button.click. *)
MaxRetryAttempts == 3

(* WebDriverException subclasses an ordinary click attempt can raise:      *)
(* wait_until_visible times out, scroll_into_view finds the handle stale,  *)
(* click finds the element not interactable.                               *)
ButtonFailures ==
    {"TimeoutException", "StaleElementReferenceException",
     "ElementNotInteractableException"}

(* Button.__init__: the optional `disabled` indicator locator; no call yet. *)
ButtonIdle(d) ==
    [disabled |-> d, pc |-> "idle", arg_attempts |-> 0, retry_attempts |-> 0,
     attempt_force_on_fail |-> FALSE, disabled_found |-> FALSE,
     log |-> <<>>, result |-> "none"]

(* The disabled check at the head of click() left out. *)
ButtonIsDisabledIgnored(disabled, found) == FALSE

(* self.disabled is not None and find_element locates the indicator *)
ButtonIsDisabled(disabled, found) == disabled /\ found

(* What force_click() can raise: locate() finds no element, or the driver  *)
(* fails to run the click script on the handle.                            *)
ButtonForceFailures == {"NoSuchElementException", "JavascriptException"}

(* self.force_click() inside the except-branch: the script clicks the      *)
(* element and click() leaves the loop, or the call raises and its         *)
(* exception leaves click().                                               *)
ButtonForceClick(b, exc, forced) ==
    IF forced = "ok"
      THEN [b EXCEPT !.log = b.log \o <<exc, "force_click">>,
                     !.pc = "done", !.result = "ok"]
      ELSE [b EXCEPT !.log = b.log \o <<exc, "force_click_raises">>,
                     !.pc = "done", !.result = forced]

(* The except-branch of the retry loop without the break after the        *)
(* force-click: the loop goes on with another ordinary attempt.            *)
ButtonAfterFailureNoBreak(b, exc, forced) ==
    LET left == b.retry_attempts - 1 IN
    IF left > 0
      THEN [b EXCEPT !.retry_attempts = left,
                     !.log = b.log \o <<exc, "sleep">>]
      ELSE IF b.attempt_force_on_fail
        THEN [ButtonForceClick([b EXCEPT !.retry_attempts = left], exc, forced)
                EXCEPT !.pc = IF forced = "ok" THEN "try" ELSE "done",
                       !.result = IF forced = "ok" THEN "none" ELSE forced]
        ELSE [b EXCEPT !.retry_attempts = left,
                       !.log = b.log \o <<exc>>,
                       !.pc = "done", !.result = exc]

(* The except-branch of the retry loop with the decrement compared against *)
(* -1, so that one attempt too many is made.                               *)
ButtonAfterFailureOffByOne(b, exc, forced) ==
    LET left == b.retry_attempts - 1 IN
    IF left > -1
      THEN [b EXCEPT !.retry_attempts = left,
                     !.log = b.log \o <<exc, "sleep">>]
      ELSE IF b.attempt_force_on_fail
        THEN ButtonForceClick([b EXCEPT !.retry_attempts = left], exc, forced)
        ELSE [b EXCEPT !.retry_attempts = left,
                       !.log = b.log \o <<exc>>,
                       !.pc = "done", !.result = exc]

(* The except-branch of the retry loop: decrement, then sleep and retry,   *)
(* or force-click and leave, or re-raise.                                  *)
ButtonAfterFailure(b, exc, forced) ==
    LET left == b.retry_attempts - 1 IN
    IF left > 0
      THEN [b EXCEPT !.retry_attempts = left,
                     !.log = b.log \o <<exc, "sleep">>]
      ELSE IF b.attempt_force_on_fail
        THEN ButtonForceClick([b EXCEPT !.retry_attempts = left], exc, forced)
        ELSE [b EXCEPT !.retry_attempts = left,
                       !.log = b.log \o <<exc>>,
                       !.pc = "done", !.result = exc]

ButtonFrame == UNCHANGED <<checkbox, toggled, table, dropdown, pager, combobox, wait, positive, negative, radio, registry, construct, query, timed>>

(* click(retry_attempts=n, attempt_force_on_fail=force) up to the loop.    *)
ButtonClick(n, force, found) ==
    /\ button.pc = "idle"
    /\ button' =
         IF ButtonIsDisabled(button.disabled, found)
           THEN [button EXCEPT !.pc = "done", !.arg_attempts = n,
                               !.retry_attempts = n,
                               !.attempt_force_on_fail = force,
                               !.disabled_found = found,
                               !.log = <<>>,
                               !.result = "PageElementStateException"]
           ELSE [button EXCEPT !.pc = "try", !.arg_attempts = n,
                               !.retry_attempts = n,
                               !.attempt_force_on_fail = force,
                               !.disabled_found = found,
                               !.log = <<>>, !.result = "none"]
    /\ ButtonFrame

(* One pass of the while loop: wait, scroll, click, and on a failure the  *)
(* except-branch; forced is what the force-click meets, "ok" where none is *)
(* made.                                                                   *)
ButtonAttempt(outcome, forced) ==
    /\ button.pc = "try"
    /\ forced # "ok" =>
          /\ outcome # "ok"
          /\ button.attempt_force_on_fail
          /\ button.retry_attempts - 1 <= 0
    /\ button' =
         IF outcome = "ok"
           THEN [button EXCEPT !.log = button.log \o <<"click">>,
                               !.pc = "done", !.result = "ok"]
           ELSE ButtonAfterFailure(button, outcome, forced)
    /\ ButtonFrame

(* click() has returned or raised; the descriptor is ready for the next call. *)
ButtonReturn ==
    /\ button.pc = "done"
    /\ button' = [button EXCEPT !.pc = "idle"]
    /\ ButtonFrame

ButtonNext ==
    \/ \E n \in 0..MaxRetryAttempts, force \in BOOLEAN, found \in BOOLEAN :
         ButtonClick(n, force, found)
    \/ \E outcome \in ButtonFailures \cup {"ok"},
          forced \in ButtonForceFailures \cup {"ok"} :
         ButtonAttempt(outcome, forced)
    \/ ButtonReturn

(***************************************************************************)
(* Checkbox                                                                *)
(***************************************************************************)

(* The record of one __set__ call; valid is FALSE while no call was made.  *)
CheckboxNoSet ==
    [valid |-> FALSE, target |-> FALSE, checked |-> FALSE, flipped |-> FALSE,
     follows |-> FALSE, log |-> <<>>]

(* Checkbox.__init__: toggle is TRUE when a separate `toggle` locator is   *)
(* configured; selected is the is_selected() state of the element of the   *)
(* read locator; undisturbed is TRUE while the page has not changed the    *)
(* state by itself since the last __set__.                                 *)
CheckboxIdle(t, s) ==
    [toggle |-> t, selected |-> s, undisturbed |-> FALSE,
     last |-> CheckboxNoSet, prev |-> CheckboxNoSet]

(* The toggle condition with its second disjunct lost. *)
CheckboxNeedsToggleUncheckOnly(checked, check) == checked /\ ~check

(* (checked and not check) or (not checked and check) *)
CheckboxNeedsToggle(checked, check) ==
    (checked /\ ~check) \/ (~checked /\ check)

CheckboxFrame == UNCHANGED <<button, toggled, table, dropdown, pager, combobox, wait, positive, negative, radio, registry, construct, query, timed>>

(* Checkbox.__set__(check): read is_selected from the read locator and on  *)
(* mismatch scroll to and click the element found through the read         *)
(* locator.  flips: whether the page toggles the state on that click.      *)
CheckboxSet(check, flips) ==
    LET checked == checkbox.selected
        needs == CheckboxNeedsToggle(checked, check)
        call == [valid |-> TRUE, target |-> check, checked |-> checked,
                 flipped |-> needs /\ flips,
                 follows |-> checkbox.last.valid /\ checkbox.undisturbed,
                 log |-> IF needs THEN <<"scroll_locator", "click_locator">>
                                  ELSE <<>>]
    IN /\ checkbox' =
            [checkbox EXCEPT !.selected = IF needs /\ flips THEN ~checked
                                                            ELSE checked,
                             !.undisturbed = TRUE,
                             !.prev = checkbox.last,
                             !.last = call]
       /\ CheckboxFrame

(* The page changes the checkbox state out of band. *)
CheckboxPageChange ==
    /\ checkbox' = [checkbox EXCEPT !.selected = ~checkbox.selected,
                                    !.undisturbed = FALSE]
    /\ CheckboxFrame

CheckboxNext ==
    \/ \E check \in BOOLEAN, flips \in BOOLEAN : CheckboxSet(check, flips)
    \/ CheckboxPageChange

(* Clicks of any kind in a log. *)
CheckboxClicks(log) == Count(log, "click_locator") + Count(log, "click_toggle")

(***************************************************************************)
(* ToggledElement                                                          *)
(***************************************************************************)

IndicatorStates == {"displayed", "hidden", "absent"}

ToggledNoSet ==
    [valid |-> FALSE, value |-> FALSE, seen |-> "absent", log |-> <<>>]

(* ToggledElement.__init__: exactly one of the positive and negative       *)
(* indicator, the optional alt_toggle locator; indicator is what the page  *)
(* shows for the check locator; got is the value of the last __get__.      *)
ToggledIdle(ct, alt, ind) ==
    [check_type |-> ct, alt_toggle |-> alt, indicator |-> ind,
     last |-> ToggledNoSet, got |-> "none"]

(* _get_toggled_state with the NoSuchElementException fallback inverted. *)
ToggledStateAbsentInverted(check_type, indicator) ==
    IF indicator = "absent"
      THEN check_type = "positive"
      ELSE IF check_type = "positive" THEN indicator = "displayed"
                                      ELSE indicator # "displayed"

(* _get_toggled_state: is_displayed() of the indicator, NoSuchElement      *)
(* standing for not displayed. *)
ToggledState(check_type, indicator) ==
    IF indicator = "absent"
      THEN check_type # "positive"
      ELSE IF check_type = "positive" THEN indicator = "displayed"
                                      ELSE indicator # "displayed"

(* if self.alt_toggle and not value: alt_toggle, else: locator *)
ToggledLocator(alt_toggle, value) ==
    IF alt_toggle /\ ~value THEN "alt_toggle" ELSE "locator"

(* wait.until.element_to_be_clickable(locator), scroll_into_view, click *)
ToggledClickLog(loc) ==
    IF loc = "alt_toggle"
      THEN <<"wait_clickable_alt_toggle", "scroll_alt_toggle", "click_alt_toggle">>
      ELSE <<"wait_clickable_locator", "scroll_locator", "click_locator">>

ToggledFrame == UNCHANGED <<button, checkbox, table, dropdown, pager, combobox, wait, positive, negative, radio, registry, construct, query, timed>>

(* ToggledElement.__set__(value); after: what the indicator shows once the *)
(* page has handled the click.                                             *)
ToggledSet(value, after) ==
    LET state == ToggledState(toggled.check_type, toggled.indicator)
        loc == ToggledLocator(toggled.alt_toggle, value)
    IN /\ toggled' =
            [toggled EXCEPT
               !.indicator = IF state # value THEN after ELSE toggled.indicator,
               !.last = [valid |-> TRUE, value |-> value,
                         seen |-> toggled.indicator,
                         log |-> IF state # value THEN ToggledClickLog(loc)
                                                  ELSE <<>>]]
       /\ ToggledFrame

(* ToggledElement.__get__ *)
ToggledGet ==
    /\ toggled' =
         [toggled EXCEPT
            !.got = IF ToggledState(toggled.check_type, toggled.indicator)
                      THEN "on" ELSE "off"]
    /\ ToggledFrame

ToggledNext ==
    \/ \E value \in BOOLEAN, after \in IndicatorStates : ToggledSet(value, after)
    \/ ToggledGet

(***************************************************************************)
(* TableSelection                                                          *)
(***************************************************************************)
(* Text is a sequence of tokens, each token one or more characters; no     *)
(* token is a prefix of another, so two texts are the same string exactly  *)
(* when they are the same sequence.  The table is configured with label,   *)
(* input and toggle locators, one info column and no scroll_el;            *)
(* label_parse is "none" when the option is not given.                     *)

(* Largest number of elements the label locator matches. *)
MaxRows == 3

(* Largest number of elements the input locator matches. *)
MaxInputs == 4

DigitChars == <<"0", "1", "2", "3", "4", "5", "6", "7", "8", "9">>

(* str(n) for n >= 0 *)
RECURSIVE Str(_)
Str(n) ==
    IF n < 10 THEN <<DigitChars[n + 1]>>
              ELSE Str(n \div 10) \o <<DigitChars[(n % 10) + 1]>>

(* "<TableRow {}: {}>".format(idx, label) *)
AnonymousRowKey(idx, label) ==
    <<"<TableRow ">> \o Str(idx) \o <<": ">> \o label \o <<">">>

(* Texts a label element of the page can show. *)
LabelTexts == {<<"x">>, <<"y">>, AnonymousRowKey(0, <<"x">>)}

(* Sequences over S of length at most n. *)
SeqsUpTo(S, n) == UNION {[1..k -> S] : k \in 0..n}

TableNoSnapshot == [status |-> "none", rows |-> <<>>, iter |-> <<>>]

(* No row operation yet.  A row operation records its kind, the snapshot    *)
(* row it ran on, the is_selected() value it read, the target of a set,    *)
(* the positions (from 1) of the toggle matches it clicked, the position   *)
(* of the match its first lookup took (0: none), the input states and the  *)
(* label the page showed at that position at that lookup, the label the    *)
(* page showed at the clicked position at the click, and whether the page  *)
(* had changed since the read of the snapshot when the operation did its   *)
(* last lookup.  The status is "toggle" while a set is between its read    *)
(* and its click.                                                          *)
TableNoRowOp ==
    [status |-> "none", op |-> "none", row |-> 0, value |-> FALSE,
     target |-> FALSE, clicks |-> <<>>, pos |-> 0, before |-> <<>>,
     owner |-> <<>>, toggled |-> <<>>, mutated |-> FALSE]

(* TableSelection.__init__ and the page: labels are the texts of the       *)
(* elements the label locator matches, inputs the is_selected() states of  *)
(* the elements the input locator matches, both in document order;        *)
(* toggles and infos count the elements the toggle locator and the locator *)
(* of the info column match.  selectable: the input and toggle locators    *)
(* are configured.                                                         *)
TableIdle(anon, labels, inputs) ==
    [anonymous |-> anon, label_parse |-> "none", selectable |-> TRUE,
     labels |-> labels, inputs |-> inputs, toggles |-> Len(inputs),
     infos |-> Len(labels), mutated |-> FALSE,
     snapshot |-> TableNoSnapshot, rowop |-> TableNoRowOp]

(* A declaration with the input and toggle locators or without them, on a  *)
(* page with the given numbers of toggle and info matches.                 *)
TableIdleRows(selectable, labels, inputs, toggles, infos) ==
    [TableIdle(FALSE, labels, inputs) EXCEPT
       !.selectable = selectable, !.toggles = toggles, !.infos = infos]

(* label_parse patterns a table is declared with: "group" stands for       *)
(* "row (\w+)", a pattern with one capture group, "plain" for "row \w+",   *)
(* the same pattern without the group.                                     *)
LabelParses == {"group", "plain"}

(* Texts a label shows on a page whose table is declared with label_parse: *)
(* two the patterns match and one they do not.                             *)
ParsedLabelTexts == {<<"row ", "a">>, <<"row ", "b">>, <<"other">>}

(* A declaration with the label_parse option. *)
TableIdleParsed(parse, labels, inputs) ==
    [TableIdle(FALSE, labels, inputs) EXCEPT !.label_parse = parse]

(* re.search(self.label_parse, text) finds a match *)
LabelParseMatches(text) == Len(text) = 2 /\ text[1] = "row "

(* The except IndexError clause: its first statement reads self.log, an    *)
(* attribute the descriptor does not have.                                 *)
LabelParseFallback(text) == [status |-> "AttributeError", label |-> text]

(* The label of a row: the text, or with label_parse                       *)
(* re.search(...).groups()[0], where a search without match gives None,    *)
(* which has no groups(), and a pattern without group an IndexError.       *)
TableLabel(parse, text) ==
    CASE parse = "none" -> [status |-> "ok", label |-> text]
      [] ~LabelParseMatches(text) ->
           [status |-> "AttributeError", label |-> text]
      [] parse = "plain" -> LabelParseFallback(text)
      [] OTHER -> [status |-> "ok", label |-> <<text[2]>>]

(* find_table_elements without a scroller: a presence wait that times out  *)
(* on an empty match gives the empty table, else find_elements.            *)
FindTableElements(els) == IF Len(els) = 0 THEN <<>> ELSE els

(* A membership test that never finds the key. *)
TableContainsNever(rows, item) == FALSE

(* TableSelectionObj.__contains__: item in vars(self) *)
TableContains(rows, item) == \E i \in DOMAIN rows : rows[i].key = item

(* The attribute name a row is stored under. *)
TableRowKey(anonymous, idx, label) ==
    IF anonymous THEN AnonymousRowKey(idx, label) ELSE label

(* A lookup that takes the last of the n matches. *)
TableRowFindLast(idx, n) ==
    IF idx + 1 > n THEN [status |-> "PageElementStateException", pos |-> 0]
                   ELSE [status |-> "ok", pos |-> n]

(* TableRow.find_element: the idx-th of n matches of a locator; IndexError *)
(* is turned into the state error.                                         *)
TableRowFind(idx, n) ==
    IF idx + 1 > n THEN [status |-> "PageElementStateException", pos |-> 0]
                   ELSE [status |-> "ok", pos |-> idx + 1]

(* TableRow.is_selected of a row of the given idx on page state t: the     *)
(* value error without input locator, else the state of the idx-th match   *)
(* of the input locator.                                                   *)
TableRowRead(t, idx) ==
    LET found == TableRowFind(idx, Len(FindTableElements(t.inputs)))
    IN IF ~t.selectable
         THEN [status |-> "PageElementValueException", value |-> FALSE,
               pos |-> 0]
       ELSE IF found.status # "ok"
         THEN [status |-> found.status, value |-> FALSE, pos |-> 0]
         ELSE [status |-> "ok", value |-> t.inputs[found.pos],
               pos |-> found.pos]

(* self.find_element(self.toggle_locator).click() on page state t: the     *)
(* click on the idx-th match of the toggle locator flips the input of that *)
(* position.                                                               *)
TableRowClick(t, idx) ==
    LET found == TableRowFind(idx, t.toggles)
    IN IF found.status # "ok"
         THEN [status |-> found.status, pos |-> 0, inputs |-> t.inputs]
         ELSE [status |-> "ok", pos |-> found.pos,
               inputs |-> [i \in DOMAIN t.inputs |->
                             IF i = found.pos THEN ~t.inputs[i]
                                              ELSE t.inputs[i]]]

(* A comparison that asks for a click whatever the state. *)
TableRowNeedsToggleAlways(checked, check) == TRUE

(* (checked and not check) or (not checked and check) *)
TableRowNeedsToggle(checked, check) ==
    (checked /\ ~check) \/ (~checked /\ check)

(* TableRow.__set__ of a row of the given idx on a page that stays as it   *)
(* is during the call: the status, the clicked positions and the inputs    *)
(* afterwards.                                                             *)
TableRowSetOn(t, idx, check) ==
    LET read == TableRowRead(t, idx)
        click == TableRowClick(t, idx)
    IN IF read.status # "ok"
         THEN [status |-> read.status, clicks |-> <<>>, inputs |-> t.inputs]
       ELSE IF ~TableRowNeedsToggle(read.value, check)
         THEN [status |-> "ok", clicks |-> <<>>, inputs |-> t.inputs]
       ELSE IF click.status # "ok"
         THEN [status |-> click.status, clicks |-> <<>>, inputs |-> t.inputs]
         ELSE [status |-> "ok", clicks |-> <<click.pos>>,
               inputs |-> click.inputs]

(* TableSelectionObj.__setattr__ on page state t: a name already bound to  *)
(* a TableRow is handed to that row's __set__ with the new row, an object  *)
(* that counts as true, as the target: the dictionary keeps the old row    *)
(* and what __set__ raises leaves __setattr__.  A new name is added.       *)
TableSetAttr(t, rows, row) ==
    IF \E i \in DOMAIN rows : rows[i].key = row.key
      THEN LET old == rows[CHOOSE i \in DOMAIN rows : rows[i].key = row.key]
               set == TableRowSetOn(t, old.idx, TRUE)
           IN [status |-> set.status, rows |-> rows, inputs |-> set.inputs]
      ELSE [status |-> "ok", rows |-> Append(rows, row), inputs |-> t.inputs]

(* enumerate(labels): the idx of the label at position pos (from 1). *)
TableRowIdx(pos) == pos - 1

(* The loop of __get__ on page state t from position pos of the labels it  *)
(* found, rows being vars(table) so far in insertion order: the label of   *)
(* the row, the duplicate check on the label, then the row stored under    *)
(* its key, where the value error of the store counts as a duplicate and   *)
(* any other error leaves __get__.                                         *)
RECURSIVE TableGetRows(_, _, _, _)
TableGetRows(t, labels, pos, rows) ==
    IF pos > Len(labels)
      THEN [status |-> "ok", rows |-> rows, inputs |-> t.inputs]
      ELSE LET parsed == TableLabel(t.label_parse, labels[pos])
               label == parsed.label
               idx == TableRowIdx(pos)
               row == [key |-> TableRowKey(t.anonymous, idx, label),
                       idx |-> idx, label |-> label]
               stored == TableSetAttr(t, rows, row)
           IN IF parsed.status # "ok"
                THEN [status |-> parsed.status, rows |-> <<>>,
                      inputs |-> t.inputs]
              ELSE IF TableContains(rows, label)
                THEN [status |-> "PageElementStateException", rows |-> <<>>,
                      inputs |-> t.inputs]
              ELSE IF stored.status = "PageElementValueException"
                THEN [status |-> "PageElementStateException", rows |-> <<>>,
                      inputs |-> stored.inputs]
              ELSE IF stored.status # "ok"
                THEN [status |-> stored.status, rows |-> <<>>,
                      inputs |-> stored.inputs]
                ELSE TableGetRows([t EXCEPT !.inputs = stored.inputs], labels,
                                  pos + 1, stored.rows)

(* TableSelectionObj.__iter__: sorted(vars(self).values(), key=idx) *)
TableIter(rows) ==
    LET n == Len(rows)
        Rank(r) == Cardinality({j \in 1..n : rows[j].idx < rows[r].idx
                                             \/ (rows[j].idx = rows[r].idx /\ j < r)})
    IN [i \in 1..n |-> rows[CHOOSE r \in 1..n : Rank(r) = i - 1]]

TableFrame == UNCHANGED <<button, checkbox, toggled, dropdown, pager, combobox, wait, positive, negative, radio, registry, construct, query, timed>>

(* The program is between two calls on the table: no set waits for its     *)
(* click.                                                                  *)
TableAtRest == table.rowop.status # "toggle"

(* TableSelection.__get__ followed by the caller iterating the snapshot. *)
TableGet ==
    /\ TableAtRest
    /\ LET got == TableGetRows(table, FindTableElements(table.labels), 1, <<>>)
       IN table' = [table EXCEPT
                      !.inputs = got.inputs,
                      !.snapshot = [status |-> got.status, rows |-> got.rows,
                                    iter |-> TableIter(got.rows)],
                      !.rowop = TableNoRowOp, !.mutated = FALSE]
    /\ TableFrame

(* The label the page shows at position pos of the label locator's        *)
(* matches, the empty text when there is none.                             *)
TableLabelAt(pos) ==
    IF pos \in DOMAIN table.labels THEN table.labels[pos] ELSE <<>>

(* The record of a row operation on snapshot row r. *)
TableRowOp(op, r, status, value, target, clicks, pos) ==
    [status |-> status, op |-> op, row |-> r, value |-> value,
     target |-> target, clicks |-> clicks, pos |-> pos,
     before |-> table.inputs, owner |-> TableLabelAt(pos),
     toggled |-> <<>>, mutated |-> table.mutated]

(* TableRow.is_selected on the r-th row of the snapshot. *)
TableRowIsSelected(r) ==
    /\ TableAtRest
    /\ table.snapshot.status = "ok"
    /\ r \in DOMAIN table.snapshot.rows
    /\ LET read == TableRowRead(table, table.snapshot.rows[r].idx)
       IN table' = [table EXCEPT !.rowop =
                      TableRowOp("is_selected", r, read.status, read.value,
                                 FALSE, <<>>, read.pos)]
    /\ TableFrame

(* TableRow.__set__ on the r-th row of the snapshot, reached through the   *)
(* snapshot's __setattr__, up to the comparison: is_selected, and on a     *)
(* mismatch the call goes on to the toggle (status "toggle").              *)
TableRowSet(r, check) ==
    /\ TableAtRest
    /\ table.snapshot.status = "ok"
    /\ r \in DOMAIN table.snapshot.rows
    /\ LET read == TableRowRead(table, table.snapshot.rows[r].idx)
       IN table' = [table EXCEPT !.rowop =
                      IF read.status # "ok"
                        THEN TableRowOp("set", r, read.status, FALSE, check,
                                        <<>>, 0)
                      ELSE IF ~TableRowNeedsToggle(read.value, check)
                        THEN TableRowOp("set", r, "ok", read.value, check,
                                        <<>>, read.pos)
                        ELSE TableRowOp("set", r, "toggle", read.value, check,
                                        <<>>, read.pos)]
    /\ TableFrame

(* The rest of TableRow.__set__ after a mismatch: the lookup of the idx-th *)
(* match of the toggle locator in the table as it is now, and the click.   *)
(* The row operation keeps what the read saw and records the label the     *)
(* page shows at the clicked position.                                     *)
TableRowToggle ==
    /\ table.rowop.status = "toggle"
    /\ LET op == table.rowop
           click == TableRowClick(table, table.snapshot.rows[op.row].idx)
       IN table' = [table EXCEPT
                      !.inputs = click.inputs,
                      !.rowop = IF click.status # "ok"
                                  THEN [op EXCEPT !.status = click.status,
                                                  !.mutated = table.mutated]
                                  ELSE [op EXCEPT !.status = "ok",
                                                  !.clicks = <<click.pos>>,
                                                  !.toggled = TableLabelAt(click.pos),
                                                  !.mutated = table.mutated]]
    /\ TableFrame

(* TableRow.__getattr__ for the name of the info column on the r-th row of *)
(* the snapshot: the idx-th match of the column's locator.                 *)
TableRowInfo(r) ==
    /\ TableAtRest
    /\ table.snapshot.status = "ok"
    /\ r \in DOMAIN table.snapshot.rows
    /\ LET idx == table.snapshot.rows[r].idx
           found == TableRowFind(idx, table.infos)
       IN table' = [table EXCEPT !.rowop =
                      TableRowOp("info", r, found.status, FALSE, FALSE, <<>>,
                                 found.pos)]
    /\ TableFrame

(* Tables of the page between two operations: rows with pairwise distinct *)
(* labels, each with its input, its toggle and its info cell.              *)
TablePages ==
    {pg \in [labels : SeqsUpTo({<<"x">>, <<"y">>}, 2),
             inputs : SeqsUpTo(BOOLEAN, 2)] :
       /\ Len(pg.inputs) = Len(pg.labels)
       /\ \A i, j \in DOMAIN pg.labels : pg.labels[i] = pg.labels[j] => i = j}

(* The page re-renders the table out of band, between two calls of the     *)
(* program or between the read and the click of a set: rows are inserted,  *)
(* removed or reordered.                                                   *)
TablePageChange ==
    /\ \E pg \in TablePages :
         /\ pg.labels # table.labels
         /\ table' = [table EXCEPT !.labels = pg.labels, !.inputs = pg.inputs,
                                   !.toggles = Len(pg.labels),
                                   !.infos = Len(pg.labels),
                                   !.mutated = TRUE]
    /\ TableFrame

TableNext ==
    \/ TableGet
    \/ \E r \in 1..MaxRows : TableRowIsSelected(r)
    \/ \E r \in 1..MaxRows, check \in BOOLEAN : TableRowSet(r, check)
    \/ TableRowToggle
    \/ \E r \in 1..MaxRows : TableRowInfo(r)

TableMutatedNext ==
    \/ TableNext
    \/ TablePageChange

(***************************************************************************)
(* DropdownSelector                                                        *)
(***************************************************************************)

(* attempts = 3 in DropdownSelector.__set__ *)
DropdownAttempts == 3

(* Largest number of elements the lookup context locator matches. *)
MaxCandidates == 2

(* Option names a descriptor can declare, values a caller assigns, and     *)
(* what the regex format is matched against in a candidate's outerHTML.    *)
OptionNames == {"opt"}
DropdownValues == {"opt", "a"}
CandidateTitles == {"a", "b"}

(* What the driver answers during one pass of the retry loop. *)
DropdownAnswers ==
    [ctx_visible : BOOLEAN,
     trigger : {"ok", "TimeoutException", "ElementNotInteractableException"},
     option : {"ok", "TimeoutException", "StaleElementReferenceException"},
     presence : {"ok", "TimeoutException"},
     candidates : SeqsUpTo(CandidateTitles, MaxCandidates),
     match_click : {"ok", "ElementNotInteractableException"}]

DropdownNothingSeen == [branch |-> "none", candidates |-> 0, matches |-> 0,
                        ctx_visible |-> FALSE]

(* DropdownSelector.__init__: the declared options and whether a lookup    *)
(* context with its regex format is configured.                            *)
DropdownIdle(opts, lookup) ==
    [options |-> opts, lookup_ctx |-> lookup, pc |-> "idle", value |-> "opt",
     attempts |-> 0, tries |-> 0, element_bound |-> FALSE,
     webelement_bound |-> FALSE, log |-> <<>>,
     seen |-> DropdownNothingSeen, result |-> "none"]

(* re.search(lookup_re_fmt.format(re.escape(value)), outerHTML) for a      *)
(* format that quotes the title attribute.                                 *)
DropdownMatches(value, title) == title = value

(* The candidates whose outerHTML the pattern matches. *)
DropdownMatchSet(value, candidates) ==
    {i \in DOMAIN candidates : DropdownMatches(value, candidates[i])}

(* The except-branch of the retry loop without the re-raise: the loop     *)
(* ends and __set__ returns None.                                          *)
DropdownAfterFailureSwallowed(d, exc) ==
    IF d.attempts - 1 > 0
      THEN [d EXCEPT !.attempts = d.attempts - 1,
                     !.log = d.log \o <<exc, "sleep">>]
      ELSE [d EXCEPT !.attempts = d.attempts - 1, !.pc = "done",
                     !.log = d.log \o <<exc>>, !.result = "ok"]

(* The except-branch of the retry loop; the log keeps the exception. *)
DropdownAfterFailure(d, exc) ==
    IF d.attempts - 1 > 0
      THEN [d EXCEPT !.attempts = d.attempts - 1,
                     !.log = d.log \o <<exc, "sleep">>]
      ELSE [d EXCEPT !.attempts = d.attempts - 1, !.pc = "done",
                     !.log = d.log \o <<exc>>, !.result = exc]

(* An exception the loop does not catch leaves __set__ at once. *)
DropdownRaise(d, exc) == [d EXCEPT !.pc = "done", !.result = exc]

(* The first step of a pass: unless the lookup context is reported         *)
(* visible, wait for the trigger (binding `element`), scroll to it and     *)
(* click it.  Gives the record and whether the pass goes on.               *)
DropdownOpen(d, a) ==
    IF a.ctx_visible
      THEN [go |-> TRUE, d |-> d]
      ELSE IF a.trigger = "TimeoutException"
        THEN [go |-> FALSE, d |-> DropdownAfterFailure(d, a.trigger)]
        ELSE IF a.trigger = "ok"
          THEN [go |-> TRUE,
                d |-> [d EXCEPT !.element_bound = TRUE,
                                !.log = d.log \o <<"click_trigger">>]]
          ELSE [go |-> FALSE,
                d |-> DropdownAfterFailure([d EXCEPT !.element_bound = TRUE],
                                           a.trigger)]

(* The declared-option branch: wait for the option (binding `element`),    *)
(* scroll, click.                                                          *)
DropdownSelectOption(d, a) ==
    IF a.option = "TimeoutException"
      THEN DropdownAfterFailure(d, a.option)
      ELSE IF a.option = "ok"
        THEN [d EXCEPT !.element_bound = TRUE,
                       !.log = d.log \o <<"click_option">>,
                       !.pc = "done", !.result = "ok"]
        ELSE DropdownAfterFailure([d EXCEPT !.element_bound = TRUE], a.option)

(* The lookup branch: presence wait, find_elements, the match loop, the    *)
(* no-match message built from the loop variable, scroll_into_view of      *)
(* `element`, click of the match.  `webelement` and `element` are locals   *)
(* of __set__: once bound in a pass they stay bound in the passes after.   *)
DropdownSelectMatch(d, a) ==
    LET ms == DropdownMatchSet(d.value, a.candidates)
        d1 == [d EXCEPT !.webelement_bound = @ \/ Len(a.candidates) > 0]
    IN
    IF a.presence = "TimeoutException"
      THEN DropdownAfterFailure(d, a.presence)
      ELSE IF Cardinality(ms) > 1
        THEN DropdownRaise(d1, "PageElementStateException")
        ELSE IF ms = {}
          THEN IF ~d1.webelement_bound
                 THEN DropdownRaise(d1, "UnboundLocalError")
                 ELSE DropdownRaise(d1, "PageElementStateException")
          ELSE IF ~d1.element_bound
            THEN DropdownRaise(d1, "UnboundLocalError")
            ELSE IF a.match_click = "ok"
              THEN [d1 EXCEPT !.log = d1.log \o <<"click_match">>,
                              !.pc = "done", !.result = "ok"]
              ELSE DropdownAfterFailure(d1, a.match_click)

(* What the pass observed, kept for the properties. *)
DropdownSeen(d, a) ==
    [branch |-> IF d.value \in d.options THEN "option"
                ELSE IF ~d.lookup_ctx THEN "illegal"
                ELSE IF a.presence = "ok" THEN "lookup" ELSE "absent",
     candidates |-> Len(a.candidates),
     matches |-> Cardinality(DropdownMatchSet(d.value, a.candidates)),
     ctx_visible |-> a.ctx_visible]

DropdownFrame == UNCHANGED <<button, checkbox, toggled, table, pager, combobox, wait, positive, negative, radio, registry, construct, query, timed>>

(* DropdownSelector.__set__(value) up to the loop. *)
DropdownSet(value) ==
    /\ dropdown.pc = "idle"
    /\ dropdown' = [dropdown EXCEPT !.pc = "try", !.value = value,
                                    !.attempts = DropdownAttempts, !.tries = 0,
                                    !.element_bound = FALSE,
                                    !.webelement_bound = FALSE, !.log = <<>>,
                                    !.seen = DropdownNothingSeen,
                                    !.result = "none"]
    /\ DropdownFrame

(* One pass of the retry loop. *)
DropdownAttempt(a) ==
    /\ dropdown.pc = "try"
    /\ LET d0 == [dropdown EXCEPT !.tries = dropdown.tries + 1]
           opened == DropdownOpen(d0, a)
           d1 == opened.d
       IN dropdown' =
            IF ~opened.go
              THEN [d1 EXCEPT !.seen = [DropdownNothingSeen EXCEPT
                                          !.ctx_visible = a.ctx_visible]]
              ELSE LET d2 == [d1 EXCEPT !.seen = DropdownSeen(d1, a)] IN
                   IF d2.value \in d2.options
                     THEN DropdownSelectOption(d2, a)
                     ELSE IF ~d2.lookup_ctx
                       THEN DropdownRaise(d2, "PageElementValueException")
                       ELSE DropdownSelectMatch(d2, a)
    /\ DropdownFrame

(* __set__ has returned or raised. *)
DropdownReturn ==
    /\ dropdown.pc = "done"
    /\ dropdown' = [dropdown EXCEPT !.pc = "idle"]
    /\ DropdownFrame

DropdownNext ==
    \/ \E value \in DropdownValues : DropdownSet(value)
    \/ \E a \in DropdownAnswers : DropdownAttempt(a)
    \/ DropdownReturn

(***************************************************************************)
(* TabPager                                                                *)
(***************************************************************************)

(* Largest page number the pager shows. *)
MaxPage == 5

(* Largest number of pages a click on a button moves the pager. *)
MaxStride == 2

(* Clicks of one kind that the click count of a set distinguishes; a set   *)
(* that clicks more often keeps running with the count held at this value. *)
PagerClickCap == MaxPage

(* int(text) succeeds: text is a non-empty run of decimal digits. *)
IsIntText(text) ==
    /\ Len(text) > 0
    /\ \A i \in DOMAIN text : \E d \in DOMAIN DigitChars : DigitChars[d] = text[i]

DigitValue(c) == (CHOOSE d \in DOMAIN DigitChars : DigitChars[d] = c) - 1

(* int(text) of a run of decimal digits *)
RECURSIVE ParseInt(_)
ParseInt(text) ==
    IF Len(text) = 1
      THEN DigitValue(text[1])
      ELSE 10 * ParseInt(SubSeq(text, 1, Len(text) - 1))
             + DigitValue(text[Len(text)])

(* Texts the active indicator or a tab of the page group can show. *)
PageTexts == {Str(n) : n \in 1..MaxPage} \cup {<<"x">>}

(* page_xpath_<key> options a pager is declared with. *)
PagerKeys == {<<"a">>, <<"value">>}

(* Values assigned to the pager: the two button words, the declared and    *)
(* undeclared key words, page numbers up to one past the last page, and a  *)
(* word that is no number.                                                 *)
PagerValues ==
    {<<"previous">>, <<"next">>, <<"x">>} \cup PagerKeys
      \cup {Str(n) : n \in 1..(MaxPage + 1)}

(* What a set can click: the two buttons, a tab of the page group, a       *)
(* fixed page locator.                                                     *)
PagerTargets == {"previous", "next", "tab", "key"}

PagerNoClicks == [t \in PagerTargets |-> 0]

(* How the page answers a click: a button moves the pager by stride pages  *)
(* and stops at either end, a tab opens its page; a pager of stride 0 and  *)
(* a pager whose active text is no number keep the page they show.         *)
PagerStrides == 0..MaxStride

(* TabPager.__init__ and the page before the first call; group holds the  *)
(* texts of the tabs the page-group locator matched in the last pass that  *)
(* clicked a tab.                                                          *)
PagerIdle(keys, prev_disabled, next_disabled, page_group, stride, active) ==
    [page_locators |-> keys, prev_disabled_locator |-> prev_disabled,
     next_disabled_locator |-> next_disabled,
     page_group_locator |-> page_group,
     stride |-> stride, active |-> active,
     pc |-> "idle", value |-> <<>>, tgtintval |-> 0, lastintval |-> <<>>,
     start |-> <<>>, prevtabval |-> <<>>, disabled_shown |-> FALSE,
     clicks |-> PagerNoClicks, clicked |-> <<>>, group |-> <<>>,
     result |-> "none"]

(* One more click on target, counted up to PagerClickCap. *)
PagerCount(clicks, target) ==
    [clicks EXCEPT ![target] = IF @ < PagerClickCap THEN @ + 1 ELSE @]

(* The pager answers button clicks by moving. *)
PagerMoves(p) == p.stride > 0 /\ IsIntText(p.active)

(* Texts the active indicator can show after a click on target; tab is the *)
(* text of the clicked tab.  A fixed page locator opens a page the model   *)
(* does not know.                                                          *)
PagerReactions(p, target, tab) ==
    IF target = "key" THEN PageTexts
    ELSE IF ~PagerMoves(p) THEN {p.active}
    ELSE IF target = "next"
      THEN {Str(IF ParseInt(p.active) + p.stride < MaxPage
                  THEN ParseInt(p.active) + p.stride ELSE MaxPage)}
    ELSE IF target = "previous"
      THEN {Str(IF ParseInt(p.active) - p.stride > 1
                  THEN ParseInt(p.active) - p.stride ELSE 1)}
    ELSE {tab}

(* Whether find_element locates the disabled indicator of a button: a      *)
(* pager that moves shows it at the end the button points past, any other  *)
(* pager as the page answers.                                              *)
PagerDisabledShown(p, target, answer) ==
    IF PagerMoves(p)
      THEN \/ target = "next" /\ ParseInt(p.active) >= MaxPage
           \/ target = "previous" /\ ParseInt(p.active) <= 1
      ELSE answer

(* The disabled locator of the other button looked up. *)
PagerButtonDisabledSwapped(p, target, found) ==
    /\ IF target = "previous" THEN p.next_disabled_locator
                              ELSE p.prev_disabled_locator
    /\ found

(* prev_button / next_button: the button is refused when its disabled      *)
(* locator is configured and find_element locates the indicator.           *)
PagerButtonDisabled(p, target, found) ==
    /\ IF target = "previous" THEN p.prev_disabled_locator
                              ELSE p.next_disabled_locator
    /\ found

(* The click on target answered by the page with the text to. *)
PagerClick(p, target, tab, to) ==
    [p EXCEPT !.clicks = PagerCount(p.clicks, target), !.clicked = tab,
              !.active = to]

PagerRaise(p, exc) == [p EXCEPT !.pc = "done", !.result = exc]

PagerCall(p, value) ==
    [p EXCEPT !.value = value, !.start = p.active, !.tgtintval = 0,
              !.lastintval = <<>>, !.prevtabval = <<>>,
              !.disabled_shown = FALSE, !.clicks = PagerNoClicks,
              !.clicked = <<>>, !.group = <<>>, !.result = "none"]

(* self.page_locators["value"]: the key the lookup of the fixed locator    *)
(* uses, whatever value was assigned.                                      *)
PagerFixedLocatorKey(value) == <<"value">>

(* abs(tgtintval - int(element.text)) *)
PagerOffset(tgtintval, text) ==
    IF tgtintval >= ParseInt(text) THEN tgtintval - ParseInt(text)
                                   ELSE ParseInt(text) - tgtintval

(* The sort taken to put the last of the tabs at the least offset first.   *)
PagerNearestTabLast(group, tgtintval) ==
    CHOOSE i \in DOMAIN group :
      \A j \in DOMAIN group :
        \/ PagerOffset(tgtintval, group[i]) < PagerOffset(tgtintval, group[j])
        \/ /\ PagerOffset(tgtintval, group[i]) = PagerOffset(tgtintval, group[j])
           /\ i >= j

(* sorted(page_tab_val_map, key=offset)[0]: the first tab of the group at  *)
(* the least offset from the target.                                       *)
PagerNearestTab(group, tgtintval) ==
    CHOOSE i \in DOMAIN group :
      \A j \in DOMAIN group :
        \/ PagerOffset(tgtintval, group[i]) < PagerOffset(tgtintval, group[j])
        \/ /\ PagerOffset(tgtintval, group[i]) = PagerOffset(tgtintval, group[j])
           /\ i <= j

(* The button of a pass without a page group, swapped. *)
PagerDirectionReversed(curintval, tgtintval) ==
    IF curintval > tgtintval THEN "next" ELSE "previous"

(* The button of a pass without a page group: "previous" above the target, *)
(* "next" otherwise.                                                       *)
PagerDirection(curintval, tgtintval) ==
    IF curintval > tgtintval THEN "previous" ELSE "next"

(* The no-progress test left out. *)
PagerNoProgressIgnored(lastintval, curintval) == FALSE

(* curintval == lastintval: the page read is the page of the pass before.  *)
PagerNoProgress(lastintval, curintval) == lastintval = <<curintval>>

PagerFrame == UNCHANGED <<button, checkbox, toggled, table, dropdown, combobox, wait, positive, negative, radio, registry, construct, query, timed>>

(* __set__(value) with value a declared page key. *)
PagerSetKey(value) ==
    /\ pager.pc = "idle"
    /\ value \in pager.page_locators
    /\ LET p == PagerCall(pager, value)
           key == PagerFixedLocatorKey(value)
       IN IF key \notin p.page_locators
            THEN pager' = PagerRaise(p, "KeyError")
            ELSE \E to \in PagerReactions(p, "key", key) :
                   pager' = [PagerClick(p, "key", key, to) EXCEPT
                               !.pc = "done", !.result = "ok"]
    /\ PagerFrame

(* __set__("previous") and __set__("next"). *)
PagerSetStep(value, found) ==
    /\ pager.pc = "idle"
    /\ value \notin pager.page_locators
    /\ value \in {<<"previous">>, <<"next">>}
    /\ LET target == value[1]
           shown == PagerDisabledShown(pager, target, found)
           p == [PagerCall(pager, value) EXCEPT
                   !.prevtabval = pager.active, !.disabled_shown = shown]
       IN IF PagerButtonDisabled(p, target, shown)
            THEN pager' = PagerRaise(p, "PageElementStateException")
            ELSE \E to \in PagerReactions(p, target, <<>>) :
                   pager' =
                     IF to = p.prevtabval
                       THEN PagerRaise(PagerClick(p, target, <<>>, to),
                                       "PageElementStateException")
                       ELSE [PagerClick(p, target, <<>>, to) EXCEPT
                               !.pc = "done", !.result = "ok"]
    /\ PagerFrame

(* __set__(value) with any other value, up to the loop. *)
PagerSetInt(value) ==
    /\ pager.pc = "idle"
    /\ value \notin pager.page_locators
    /\ value \notin {<<"previous">>, <<"next">>}
    /\ LET p == PagerCall(pager, value)
       IN pager' = IF ~IsIntText(value)
                     THEN PagerRaise(p, "PageElementYamlException")
                     ELSE [p EXCEPT !.pc = "loop",
                                    !.tgtintval = ParseInt(value)]
    /\ PagerFrame

(* One pass of the while loop: read the active page, compare, click, wait. *)
PagerIterate(found, group) ==
    /\ pager.pc = "loop"
    /\ LET p == pager
           curintval == ParseInt(p.active)
           target == IF p.page_group_locator THEN "tab"
                     ELSE PagerDirection(curintval, p.tgtintval)
           shown == PagerDisabledShown(p, target, found)
       IN IF ~IsIntText(p.active)
            THEN pager' = PagerRaise(p, "PageElementValueException")
          ELSE IF \/ curintval = p.tgtintval
                  \/ PagerNoProgress(p.lastintval, curintval)
            THEN pager' = [p EXCEPT !.pc = "done", !.result = "ok"]
          ELSE IF p.page_group_locator
            THEN IF \E i \in DOMAIN group : ~IsIntText(group[i])
                   THEN pager' = PagerRaise(p, "PageElementValueException")
                   ELSE LET tab == group[PagerNearestTab(group, p.tgtintval)]
                        IN \E to \in PagerReactions(p, "tab", tab) :
                             pager' = [PagerClick(p, "tab", tab, to) EXCEPT
                                         !.lastintval = <<curintval>>,
                                         !.group = group]
          ELSE IF PagerButtonDisabled(p, target, shown)
            THEN pager' = PagerRaise([p EXCEPT !.disabled_shown = shown],
                                     "PageElementStateException")
            ELSE \E to \in PagerReactions(p, target, <<>>) :
                   pager' = [PagerClick(p, target, <<>>, to) EXCEPT
                               !.lastintval = <<curintval>>,
                               !.disabled_shown = shown]
    /\ PagerFrame

(* __set__ has returned or raised. *)
PagerReturn ==
    /\ pager.pc = "done"
    /\ pager' = PagerIdle(pager.page_locators, pager.prev_disabled_locator,
                          pager.next_disabled_locator,
                          pager.page_group_locator, pager.stride, pager.active)
    /\ PagerFrame

(* Tabs the page-group locator matches: one tab or two. *)
PagerGroups ==
    {<<a>> : a \in PageTexts} \cup {<<a, b>> : a, b \in PageTexts}

(* The answers of the page a step of the pager in state p can read. *)
PagerFound(p) ==
    IF p.prev_disabled_locator \/ p.next_disabled_locator THEN BOOLEAN
                                                          ELSE {FALSE}

PagerSeenGroups(p) == IF p.page_group_locator THEN PagerGroups ELSE {<<>>}

PagerNext ==
    \/ \E value \in PagerValues : PagerSetKey(value)
    \/ \E value \in PagerValues, found \in PagerFound(pager) :
         PagerSetStep(value, found)
    \/ \E value \in PagerValues : PagerSetInt(value)
    \/ \E found \in PagerFound(pager), group \in PagerSeenGroups(pager) :
         PagerIterate(found, group)
    \/ PagerReturn

(***************************************************************************)
(* ComboBox                                                                *)
(***************************************************************************)
(* A combobox that is not hidden and has no multiselect counter.  The      *)
(* calls issued for the value being filled are counted per kind, a call    *)
(* that raised included; click_escape counts the dismissals through the    *)
(* escape locator, its wait and its click, escape those by keypress.       *)

(* Largest number of values one assignment carries. *)
MaxOpts == 2

(* fill_attempts = 3 *)
ComboFillAttempts == 3

(* click_attempts = 3 *)
ComboClickAttempts == 3

(* Values assigned to the combobox. *)
ComboValues == {<<"foo">>}

(* Texts the first child of the lookup context can show. *)
ChildTexts == {<<"foo">>, <<"bar">>, <<"Loading...">>, <<"Still ", "loading...">>}

(* Calls counted while one value is filled. *)
ComboCalls ==
    {"clear", "send_keys_opt", "actions_send_keys_opt", "enter", "wait_ctx",
     "ctx_timeout", "wait_child", "child_timeout", "child_error",
     "click_child", "send_keys_top_child", "sleep_escape", "click_escape",
     "escape"}

ComboNoCalls == [e \in ComboCalls |-> 0]

ComboCount(calls, e) == [calls EXCEPT ![e] = @ + 1]

(* What the finally clause finds of the first lookup-context element:      *)
(* displayed, hidden yet enabled, hidden and disabled, or stale.           *)
ComboCtxStates == {"displayed", "hidden_enabled", "hidden_disabled", "stale"}

(* What the dismissal of the finally clause meets: it goes through; the    *)
(* wait for the escape locator times out; the wait, the click or the       *)
(* keypress raises an exception the clause catches; the click or the       *)
(* keypress raises one it does not catch.                                  *)
ComboDismissAnswers ==
    {"ok", "TimeoutException", "StaleElementReferenceException",
     "ElementNotInteractableException"}

(* What one pass of the click loop meets: the wait for the first child     *)
(* times out, the wait or the read of its text raises an exception the     *)
(* loop catches, the child shows a text, and then its click can raise an   *)
(* exception the loop catches.                                             *)
ComboInspections ==
    [kind : {"TimeoutException", "caught"}, text : {<<>>}, click : {TRUE}]
      \cup [kind : {"text"}, text : ChildTexts, click : BOOLEAN]

(* ComboBox.__init__; no call yet. *)
ComboBoxIdle(lookup_ctx, ignore_selections, escape_delay, click_escape) ==
    [lookup_ctx |-> lookup_ctx, ignore_selections |-> ignore_selections,
     escape_delay |-> escape_delay, click_escape_locator |-> click_escape,
     pc |-> "idle", opts |-> <<>>, opt |-> 0, fill_attempts |-> 0,
     click_attempts |-> 0, calls |-> ComboNoCalls, seen_values |-> {},
     ctx_seen |-> "none", pending |-> "none", raised_at |-> "none",
     fills_before |-> <<>>, prep |-> <<>>, result |-> "none"]

(* re.search(r"[Ll]oading\.\.\.", seen_value) *)
ComboIsLoading(seen_value) ==
    \E i \in DOMAIN seen_value : seen_value[i] \in {"Loading...", "loading..."}

(* The value's fill is left: normally (pending "ok") or by an exception. *)
ComboExit(c, pending) == [c EXCEPT !.pc = "exit", !.pending = pending]

(* The start of the loop for the next value; fills_before keeps the number *)
(* of context waits each earlier value of the assignment took.             *)
ComboStartValue(c, i) ==
    [c EXCEPT !.pc = "fill", !.opt = i, !.fill_attempts = ComboFillAttempts,
              !.click_attempts = 0, !.calls = ComboNoCalls,
              !.seen_values = {}, !.ctx_seen = "none", !.pending = "none",
              !.raised_at = "none",
              !.fills_before = IF i = 1 THEN <<>>
                               ELSE Append(@, c.calls["wait_ctx"])]

(* The retry test of the context wait off by one. *)
ComboAfterCtxTimeoutOffByOne(c) ==
    LET left == c.fill_attempts - 1
        c1 == [c EXCEPT !.fill_attempts = left,
                        !.calls = ComboCount(c.calls, "ctx_timeout")]
    IN IF left >= 0 THEN c1
       ELSE ComboExit([c1 EXCEPT !.raised_at = "ctx_wait"], "TimeoutException")

(* except TimeoutException of the context wait: one attempt less, another  *)
(* fill if any is left, else the timeout is raised again.                  *)
ComboAfterCtxTimeout(c) ==
    LET left == c.fill_attempts - 1
        c1 == [c EXCEPT !.fill_attempts = left,
                        !.calls = ComboCount(c.calls, "ctx_timeout")]
    IN IF left > 0 THEN c1
       ELSE ComboExit([c1 EXCEPT !.raised_at = "ctx_wait"], "TimeoutException")

(* The else clause of the click loop: type the top text and submit it. *)
ComboTypeInstead(c) ==
    [c EXCEPT !.pc = "escape", !.pending = "ok",
              !.calls = ComboCount(ComboCount(ComboCount(c.calls,
                          "clear"), "send_keys_top_child"), "enter")]

(* One click attempt is used up; the loop goes on while any is left. *)
ComboAfterFailedClick(c) ==
    LET c1 == [c EXCEPT !.click_attempts = c.click_attempts - 1]
    IN IF c1.click_attempts > 0 THEN c1 ELSE ComboTypeInstead(c1)

(* The dismiss of the finally clause is issued: escape_delay >= 0 and the  *)
(* first context element is_displayed() or is_enabled().                   *)
ComboDismisses(escape_delay, ctx) ==
    escape_delay >= 0 /\ ctx \in {"displayed", "hidden_enabled"}

ComboBoxFrame == UNCHANGED <<button, checkbox, toggled, table, dropdown, pager, wait, positive, negative, radio, registry, construct, query, timed>>

(* ComboBox.__set__(value) up to the loop over the values. *)
ComboBoxSet(iterable, opts) ==
    /\ combobox.pc = "idle"
    /\ ~iterable => opts = <<>>
    /\ LET c == [combobox EXCEPT !.opts = opts, !.result = "none",
                                 !.prep = <<"clear", "send_keys_backspaces">>]
       IN combobox' =
            IF ~iterable THEN [c EXCEPT !.pc = "done", !.result = "TypeError"]
            ELSE IF opts = <<>> THEN [c EXCEPT !.pc = "done", !.result = "ok"]
            ELSE ComboStartValue(c, 1)
    /\ ComboBoxFrame

(* Ways the typing of a fill goes: clear and send_keys succeed, or one of  *)
(* them raises ElementNotInteractableException and ActionChains types.     *)
ComboTypings == {"ok", "clear_raises", "send_keys_raises"}

(* One pass of the fill loop up to the wait for the lookup context. *)
ComboBoxFill(typing, visible) ==
    /\ combobox.pc = "fill"
    /\ ~combobox.lookup_ctx => ~visible
    /\ LET typed ==
             IF typing = "ok"
               THEN ComboCount(ComboCount(combobox.calls, "clear"),
                               "send_keys_opt")
             ELSE IF typing = "send_keys_raises"
               THEN ComboCount(ComboCount(combobox.calls, "clear"),
                               "actions_send_keys_opt")
             ELSE ComboCount(combobox.calls, "actions_send_keys_opt")
           c == [combobox EXCEPT !.calls = typed]
           waited == [c EXCEPT !.calls = ComboCount(typed, "wait_ctx")]
       IN combobox' =
            IF ~c.lookup_ctx
              THEN ComboExit([c EXCEPT !.calls = ComboCount(typed, "enter")],
                             "ok")
            ELSE IF ~visible THEN ComboAfterCtxTimeout(waited)
            ELSE IF c.ignore_selections
              THEN [waited EXCEPT !.calls = ComboCount(waited.calls, "enter"),
                                  !.pc = "escape", !.pending = "ok"]
            ELSE [waited EXCEPT !.pc = "click",
                                !.click_attempts = ComboClickAttempts]
    /\ ComboBoxFrame

(* One pass of the click loop. *)
ComboBoxClick(a) ==
    /\ combobox.pc = "click"
    /\ LET c == [combobox EXCEPT
                   !.calls = ComboCount(combobox.calls, "wait_child")]
           failed == [c EXCEPT !.calls = ComboCount(c.calls, "child_error")]
           seen == [c EXCEPT !.seen_values = c.seen_values \cup {a.text}]
       IN IF a.kind = "TimeoutException"
            THEN combobox' =
                   [c EXCEPT !.calls = ComboCount(c.calls, "child_timeout"),
                             !.pc = "escape", !.pending = "TimeoutException",
                             !.raised_at = "child_wait"]
          ELSE IF a.kind = "caught"
            THEN combobox' = ComboAfterFailedClick(failed)
          ELSE IF ComboIsLoading(a.text)
            THEN /\ a.click
                 /\ combobox' = ComboAfterFailedClick(seen)
          ELSE IF a.click
            THEN combobox' =
                   [seen EXCEPT !.calls = ComboCount(seen.calls, "click_child"),
                                !.pc = "escape", !.pending = "ok"]
          ELSE combobox' =
                 ComboAfterFailedClick(
                   [seen EXCEPT !.calls = ComboCount(seen.calls, "child_error")])
    /\ ComboBoxFrame

(* The finally clause: the optional sleep, the test of the first context   *)
(* element, the dismissal.  StaleElementReferenceException and             *)
(* NoSuchElementException are swallowed and the fill ends as it was        *)
(* ending; any other exception of the dismissal leaves __set__ in place of *)
(* the pending return or exception.                                        *)
ComboBoxEscape(ctx, dismiss) ==
    /\ combobox.pc = "escape"
    /\ ~ComboDismisses(combobox.escape_delay, ctx) => dismiss = "ok"
    /\ dismiss = "TimeoutException" => combobox.click_escape_locator
    /\ LET c == [combobox EXCEPT !.ctx_seen = ctx]
           slept == IF c.escape_delay > 0
                      THEN ComboCount(c.calls, "sleep_escape") ELSE c.calls
           dismissed ==
             IF ~ComboDismisses(c.escape_delay, ctx) THEN slept
             ELSE IF c.click_escape_locator
               THEN ComboCount(slept, "click_escape")
             ELSE ComboCount(slept, "escape")
           c1 == [c EXCEPT !.calls = dismissed]
       IN combobox' =
            IF dismiss \in {"ok", "StaleElementReferenceException"}
              THEN ComboExit(c1, c.pending)
              ELSE ComboExit([c1 EXCEPT !.raised_at = "dismiss"], dismiss)
    /\ ComboBoxFrame

(* After a value's fill: the next value, the return, or the raise. *)
ComboBoxAdvance ==
    /\ combobox.pc = "exit"
    /\ combobox' =
         IF combobox.pending # "ok"
           THEN [combobox EXCEPT !.pc = "done", !.result = combobox.pending]
         ELSE IF combobox.opt < Len(combobox.opts)
           THEN ComboStartValue(combobox, combobox.opt + 1)
         ELSE [combobox EXCEPT !.pc = "done", !.result = "ok"]
    /\ ComboBoxFrame

(* __set__ has returned or raised. *)
ComboBoxReturn ==
    /\ combobox.pc = "done"
    /\ combobox' = ComboBoxIdle(combobox.lookup_ctx, combobox.ignore_selections,
                                combobox.escape_delay,
                                combobox.click_escape_locator)
    /\ ComboBoxFrame

ComboBoxNext ==
    \/ \E iterable \in BOOLEAN, opts \in SeqsUpTo(ComboValues, MaxOpts) :
         ComboBoxSet(iterable, opts)
    \/ \E typing \in ComboTypings, visible \in BOOLEAN :
         ComboBoxFill(typing, visible)
    \/ \E a \in ComboInspections : ComboBoxClick(a)
    \/ \E ctx \in ComboCtxStates, dismiss \in ComboDismissAnswers :
         ComboBoxEscape(ctx, dismiss)
    \/ ComboBoxAdvance
    \/ ComboBoxReturn

(***************************************************************************)
(* WaitEngine                                                              *)
(***************************************************************************)

(* src/wait.py is not among the sources; the engine is modelled after      *)
(* section 4.1 of the specification.  Time is counted in polling           *)
(* intervals: the predicate is invoked, and a falsy answer is followed by  *)
(* a sleep of one interval.                                                *)

(* Largest timeout, in polling intervals. *)
MaxTimeout == 3

(* Timeouts a wait is started with. *)
WaitTimeouts == 1..MaxTimeout

(* What a predicate answers: the empty text is falsy, any other truthy. *)
WaitAnswers == {<<>>, <<"a">>, <<"b">>}

(* Answers of a predicate at the successive polls of one wait. *)
WaitSchedules == [1..(MaxTimeout + 1) -> WaitAnswers]

(* The state of one waitUntil(predicate, timeout) before its first poll.   *)
WaitStart(timeout) ==
    [timeout |-> timeout, elapsed |-> 0, polls |-> 0, outcome |-> "polling",
     value |-> <<>>]

(* The deadline test made one interval early. *)
WaitExpiredEarly(elapsed, timeout) == elapsed + 1 >= timeout

(* timeout has elapsed *)
WaitExpired(elapsed, timeout) == elapsed >= timeout

(* One polling step: the predicate answers; a truthy answer is returned,   *)
(* a falsy one is followed by the sleep and the deadline test.             *)
WaitPoll(w, answer) ==
    IF answer # <<>>
    THEN [w EXCEPT !.polls = @ + 1, !.outcome = "returned", !.value = answer]
    ELSE [w EXCEPT !.polls = @ + 1, !.elapsed = @ + 1,
                   !.outcome = IF WaitExpired(w.elapsed + 1, w.timeout)
                               THEN "TimeoutException" ELSE "polling"]

(* The engine keeps the answer of its first poll. *)
WaitPredicateCached(schedule, poll) == schedule[1]

(* The predicate invoked at the given poll. *)
WaitPredicate(schedule, poll) == schedule[poll]

(* A page context with its predicate and no wait made yet. *)
WaitIdle(schedule) ==
    [schedule |-> schedule, pc |-> "idle", w |-> WaitStart(1)]

WaitFrame == UNCHANGED <<button, checkbox, toggled, table, dropdown, pager, combobox, positive, negative, radio, registry, construct, query, timed>>

(* waitUntil(predicate, timeout) is called. *)
WaitUntil(timeout) ==
    /\ wait.pc = "idle"
    /\ wait' = [wait EXCEPT !.pc = "poll", !.w = WaitStart(timeout)]
    /\ WaitFrame

(* The engine takes one polling step. *)
WaitStep ==
    /\ wait.pc = "poll"
    /\ LET w == WaitPoll(wait.w, WaitPredicate(wait.schedule, wait.w.polls + 1))
       IN wait' = [wait EXCEPT !.w = w,
                               !.pc = IF w.outcome = "polling" THEN "poll"
                                      ELSE "done"]
    /\ WaitFrame

(* waitUntil has returned or raised; another wait can be made. *)
WaitReturn ==
    /\ wait.pc = "done"
    /\ wait' = WaitIdle(wait.schedule)
    /\ WaitFrame

WaitNext ==
    \/ \E timeout \in WaitTimeouts : WaitUntil(timeout)
    \/ WaitStep
    \/ WaitReturn

(***************************************************************************)
(* PositiveElement, PositiveElementGroup                                   *)
(***************************************************************************)

(* Largest number of elements a locator of a presence check matches. *)
MaxMatches == 2

(* What the page shows for a locator: is_displayed() of each match, in     *)
(* document order.                                                         *)
MatchStates == SeqsUpTo(BOOLEAN, MaxMatches)

PositiveKinds == {"positive_element", "positive_element_group"}

(* The descriptor of either kind on a page context with the given timeout; *)
(* pages are the states of the page at the polls of the running wait.      *)
PositiveIdle(key, timeout) ==
    [key |-> key, timeout |-> timeout, pc |-> "idle", w |-> WaitStart(timeout),
     pages |-> <<>>, result |-> "none"]

(* visibility_of_element_located looks at the first match of the locator,  *)
(* visibility_of_any_elements_located at every match.                      *)
PositiveCondition(key, page) ==
    IF key = "positive_element"
    THEN Len(page) > 0 /\ page[1]
    ELSE \E i \in DOMAIN page : page[i]

(* __get__ without its except clause. *)
PositiveResultUncaught(outcome) ==
    IF outcome = "returned" THEN "True" ELSE outcome

(* try: wait ... except TimeoutException: return False; return True *)
PositiveResult(outcome) ==
    IF outcome = "TimeoutException" THEN "False" ELSE "True"

PositiveFrame == UNCHANGED <<button, checkbox, toggled, table, dropdown, pager, combobox, wait, negative, radio, registry, construct, query, timed>>

(* __get__ starts the wait with timeout=instance.timeout. *)
PositiveGet ==
    /\ positive.pc = "idle"
    /\ positive' = [positive EXCEPT !.pc = "wait",
                                    !.w = WaitStart(positive.timeout),
                                    !.pages = <<>>, !.result = "none"]
    /\ PositiveFrame

(* One polling step of the wait against the page as it is at that time;    *)
(* when the wait ends, __get__ returns.                                    *)
PositivePoll ==
    /\ positive.pc = "wait"
    /\ \E page \in MatchStates :
         LET answer == IF PositiveCondition(positive.key, page)
                       THEN <<"a">> ELSE <<>>
             w == WaitPoll(positive.w, answer)
         IN positive' =
              [positive EXCEPT
                 !.w = w, !.pages = Append(@, page),
                 !.pc = IF w.outcome = "polling" THEN "wait" ELSE "done",
                 !.result = IF w.outcome = "polling" THEN "none"
                            ELSE PositiveResult(w.outcome)]
    /\ PositiveFrame

(* __get__ has returned. *)
PositiveReturn ==
    /\ positive.pc = "done"
    /\ positive' = PositiveIdle(positive.key, positive.timeout)
    /\ PositiveFrame

PositiveNext ==
    \/ PositiveGet
    \/ PositivePoll
    \/ PositiveReturn

(***************************************************************************)
(* NegativeElement                                                         *)
(***************************************************************************)

(* Polling intervals one find_elements call can take. *)
LookupDurations == {0, 1}

(* What a call on a located element answers: is_displayed() True or False, *)
(* or StaleElementReferenceException.                                      *)
ElementAnswers == {"displayed", "not_displayed", "stale"}

(* The descriptor on a page context with the given timeout, no get made:   *)
(* elapsed is time.time() - start, matches the length of `elements`, idx   *)
(* the position of the for loop, passed what the loop found for the        *)
(* elements it has left behind, lookup_at the time of the last lookup,     *)
(* repeated whether a wait has sent the loop back to the lookup.           *)
NegativeIdle(timeout) ==
    [timeout |-> timeout, pc |-> "idle", elapsed |-> 0, matches |-> 0,
     idx |-> 0, passed |-> <<>>, lookup_at |-> 0, repeated |-> FALSE,
     w |-> WaitStart(timeout), result |-> "none"]

(* Every wait is given the whole context timeout. *)
NegativeRemainingUnshared(timeout, elapsed) == timeout

(* min(instance.timeout, instance.timeout - time.time() + start) *)
NegativeRemaining(timeout, elapsed) ==
    IF timeout - elapsed < timeout THEN timeout - elapsed ELSE timeout

NegativeFrame == UNCHANGED <<button, checkbox, toggled, table, dropdown, pager, combobox, wait, positive, radio, registry, construct, query, timed>>

(* __get__: start = time.time() *)
NegativeGet ==
    /\ negative.pc = "idle"
    /\ negative' = [negative EXCEPT !.pc = "while"]
    /\ NegativeFrame

(* The test of the while loop and, inside the deadline, find_elements;     *)
(* past the deadline the else clause of the loop returns False.            *)
NegativeLookup ==
    /\ negative.pc = "while"
    /\ IF negative.elapsed < negative.timeout
       THEN \E n \in 0..MaxMatches, d \in LookupDurations :
              negative' = [negative EXCEPT
                             !.pc = "for", !.matches = n, !.idx = 1,
                             !.passed = <<>>, !.lookup_at = negative.elapsed,
                             !.elapsed = @ + d]
       ELSE negative' = [negative EXCEPT !.pc = "done", !.result = "False"]
    /\ NegativeFrame

(* One element of the for loop up to its wait: is_displayed() decides      *)
(* between continue and the wait, a stale element is passed over; the else *)
(* clause of an exhausted loop leaves the while loop and returns True.     *)
NegativeInspect ==
    /\ negative.pc = "for"
    /\ IF negative.idx > negative.matches
       THEN negative' = [negative EXCEPT !.pc = "done", !.result = "True"]
       ELSE \E a \in ElementAnswers :
              negative' =
                IF a = "displayed"
                THEN [negative EXCEPT
                        !.pc = "wait",
                        !.w = WaitStart(NegativeRemaining(negative.timeout,
                                                          negative.elapsed))]
                ELSE [negative EXCEPT !.idx = @ + 1,
                                      !.passed = Append(@, a)]
    /\ NegativeFrame

(* One polling step of wait.until_not.visibility_of(element): the element  *)
(* is still displayed, is no longer displayed (break, the lookup is        *)
(* repeated), or is stale (continue); the timeout of the wait returns      *)
(* False.                                                                  *)
NegativePoll ==
    /\ negative.pc = "wait"
    /\ \E a \in ElementAnswers :
         IF a = "stale"
         THEN negative' = [negative EXCEPT
                             !.pc = "for", !.idx = @ + 1,
                             !.w.polls = @ + 1,
                             !.passed = Append(@, "stale_in_wait")]
         ELSE LET w == WaitPoll(negative.w,
                                IF a = "displayed" THEN <<>> ELSE <<"a">>)
                  now == negative.elapsed + w.elapsed - negative.w.elapsed
              IN negative' =
                   [negative EXCEPT
                      !.w = w, !.elapsed = now,
                      !.repeated = @ \/ w.outcome = "returned",
                      !.pc = CASE w.outcome = "polling" -> "wait"
                               [] w.outcome = "returned" -> "while"
                               [] OTHER -> "done",
                      !.result = IF w.outcome = "TimeoutException"
                                 THEN "False" ELSE "none"]
    /\ NegativeFrame

(* __get__ has returned. *)
NegativeReturn ==
    /\ negative.pc = "done"
    /\ negative' = NegativeIdle(negative.timeout)
    /\ NegativeFrame

NegativeNext ==
    \/ NegativeGet
    \/ NegativeLookup
    \/ NegativeInspect
    \/ NegativePoll
    \/ NegativeReturn

(***************************************************************************)
(* RadioSelection                                                          *)
(***************************************************************************)

(* Option names a radio selection can declare and values a caller assigns. *)
RadioNames == {"a", "b"}
RadioValues == RadioNames \cup {"zz"}

(* The option tags of a descriptor, in the order of the YAML mapping. *)
RadioOptionLists ==
    {s \in SeqsUpTo(RadioNames, Cardinality(RadioNames)) :
       \A i, j \in DOMAIN s : i # j => s[i] # s[j]}

(* What the driver answers to the wait, scroll and click of a set: the     *)
(* click is delivered, the option never becomes clickable, the click       *)
(* raises.                                                                 *)
RadioAnswers ==
    {"ok", "TimeoutException", "ElementClickInterceptedException"}

(* self.options as the set of its keys; a locator is named after the       *)
(* option it belongs to, "own" is a locator tag of the descriptor itself.  *)
RadioOptions(list) == {list[i] : i \in DOMAIN list}

(* RadioSelection.__init__: the locator tag if there is one, else the      *)
(* locator of the first option listed, else None.  last_ok is the option   *)
(* of the last assignment that returned, clean whether no assignment of a  *)
(* declared option has failed so far.                                      *)
RadioIdle(list, own) ==
    [options |-> RadioOptions(list),
     locator |-> IF own THEN "own" ELSE IF list # <<>> THEN list[1] ELSE "None",
     pc |-> "idle", value |-> "none", before |-> "None", clicked |-> <<>>,
     result |-> "none", last_ok |-> "none", clean |-> TRUE]

(* The assignment that leaves self.locator as it is. *)
RadioLocatorKept(r, value) == r.locator

(* self.locator = self.options[value] *)
RadioLocator(r, value) == value

RadioFrame == UNCHANGED <<button, checkbox, toggled, table, dropdown, pager, combobox, wait, positive, negative, registry, construct, query, timed>>

(* __set__(value) up to the wait: the membership test and the assignment   *)
(* of self.locator.                                                        *)
RadioSet(value) ==
    /\ radio.pc = "idle"
    /\ radio' =
         IF value \notin radio.options
         THEN [radio EXCEPT !.pc = "done", !.value = value,
                            !.before = radio.locator, !.clicked = <<>>,
                            !.result = "PageElementValueException"]
         ELSE [radio EXCEPT !.pc = "click", !.value = value,
                            !.before = radio.locator, !.clicked = <<>>,
                            !.result = "none",
                            !.locator = RadioLocator(radio, value)]
    /\ RadioFrame

(* element_to_be_clickable(self.locator), scroll_into_view, click. *)
RadioClick(answer) ==
    /\ radio.pc = "click"
    /\ radio' =
         IF answer = "ok"
         THEN [radio EXCEPT !.pc = "done", !.result = "ok",
                            !.clicked = <<radio.locator>>,
                            !.last_ok = radio.value]
         ELSE [radio EXCEPT !.pc = "done", !.result = answer,
                            !.clean = FALSE]
    /\ RadioFrame

(* __set__ has returned or raised; the descriptor keeps its locator. *)
RadioReturn ==
    /\ radio.pc = "done"
    /\ radio' = [radio EXCEPT !.pc = "idle", !.value = "none",
                              !.before = "None", !.clicked = <<>>,
                              !.result = "none"]
    /\ RadioFrame

RadioNext ==
    \/ \E value \in RadioValues : RadioSet(value)
    \/ \E answer \in RadioAnswers : RadioClick(answer)
    \/ RadioReturn

(***************************************************************************)
(* Registry: PageElementDescriptorHandler, PageElementObjectDelegator      *)
(***************************************************************************)

(* One page class with its PageElements class, and the page contexts built *)
(* from it, each over a driver of its own.                                 *)
Contexts == {1, 2}

(* Names a PageElements class can declare widgets under. *)
WidgetNames == {"w1", "w2"}

(* Attributes of the page class that are no widgets, attributes of the     *)
(* driver, and a name that is defined nowhere.                             *)
PageAttrs == {"login"}
DriverAttrs == {"title"}
RegistryNames ==
    WidgetNames \cup PageAttrs \cup DriverAttrs \cup {"pageobj", "zz"}

(* No lookup made. *)
NoLookup == [kind |-> "none", name |-> "none", ctx |-> 0, group |-> "none"]

(* The PageElements class with its declared widgets; built are the page    *)
(* contexts constructed so far, pageobj the class attribute the handler's  *)
(* __init__ assigns (0: no handler constructed yet).                       *)
RegistryIdle(widgets) ==
    [widgets |-> widgets, built |-> {}, pageobj |-> 0, pc |-> "idle",
     via |-> "none", from |-> 0, result |-> NoLookup]

(* A class namespace that holds no name. *)
HandlerClassVarsEmpty(r) == {}

(* vars(type(self._el_handler)): the names bound in the body of the        *)
(* PageElements class and the pageobj attribute __init__ has put there.    *)
HandlerClassVars(r) ==
    r.widgets \cup (IF r.pageobj # 0 THEN {"pageobj"} ELSE {})

(* self._el_handler.pagename: the pagename of the page object the class    *)
(* holds, the stem of the file of the page class.                          *)
HandlerPagename(r) == "page"

(* PageElementObjectDelegator.__getattr__(attr) *)
DelegatorGetattr(r, attr) ==
    IF attr \in HandlerClassVars(r)
    THEN IF attr \in r.widgets
         THEN [kind |-> "widget", name |-> attr, ctx |-> 0, group |-> "none"]
         ELSE [kind |-> "page_object", name |-> attr, ctx |-> r.pageobj,
               group |-> "none"]
    ELSE [kind |-> "SolUiNameError", name |-> attr, ctx |-> 0,
          group |-> HandlerPagename(r)]

(* BasePage.__getattr__(attr) on the page object of context c, reached     *)
(* when the page class does not define attr.                               *)
BasePageGetattr(c, attr) ==
    IF attr \in DriverAttrs
    THEN [kind |-> "driver_attr", name |-> attr, ctx |-> c, group |-> "none"]
    ELSE [kind |-> "AttributeError", name |-> attr, ctx |-> c,
          group |-> "none"]

(* getattr(handler, attr): a widget is a descriptor and its __get__ runs   *)
(* against the handler, pageobj is found on the class, any other name      *)
(* goes through PageElementDescriptorHandler.__getattr__ to the page       *)
(* object the class holds.                                                 *)
HandlerGetattr(r, attr) ==
    CASE attr \in r.widgets ->
           [kind |-> "widget_get", name |-> attr, ctx |-> r.pageobj,
            group |-> "none"]
      [] attr = "pageobj" ->
           [kind |-> "page_object", name |-> attr, ctx |-> r.pageobj,
            group |-> "none"]
      [] attr \in PageAttrs ->
           [kind |-> "page_attr", name |-> attr, ctx |-> r.pageobj,
            group |-> "none"]
      [] OTHER -> BasePageGetattr(r.pageobj, attr)

RegistryFrame == UNCHANGED <<button, checkbox, toggled, table, dropdown, pager, combobox, wait, positive, negative, radio, construct, query, timed>>

(* BasePage.__init__ of context c: self._el = PageElements(self), whose    *)
(* __init__ assigns self.__class__.pageobj = pageobj.                      *)
RegistryConstruct(c) ==
    /\ registry.pc = "idle"
    /\ c \notin registry.built
    /\ registry' = [registry EXCEPT !.built = @ \cup {c}, !.pageobj = c]
    /\ RegistryFrame

(* page.el.obj.<attr> on the page of context c *)
RegistryLookupObj(c, attr) ==
    /\ registry.pc = "idle"
    /\ c \in registry.built
    /\ registry' = [registry EXCEPT !.pc = "done", !.via = "obj", !.from = c,
                                    !.result = DelegatorGetattr(registry, attr)]
    /\ RegistryFrame

(* page.el.<attr> on the page of context c *)
RegistryLookupEl(c, attr) ==
    /\ registry.pc = "idle"
    /\ c \in registry.built
    /\ registry' = [registry EXCEPT !.pc = "done", !.via = "el", !.from = c,
                                    !.result = HandlerGetattr(registry, attr)]
    /\ RegistryFrame

(* The caller has the answer of a lookup. *)
RegistryReturn ==
    /\ registry.pc = "done"
    /\ registry' = [registry EXCEPT !.pc = "idle", !.via = "none",
                                    !.from = 0, !.result = NoLookup]
    /\ RegistryFrame

RegistryNext ==
    \/ \E c \in Contexts : RegistryConstruct(c)
    \/ \E c \in Contexts, attr \in RegistryNames : RegistryLookupObj(c, attr)
    \/ \E c \in Contexts, attr \in RegistryNames : RegistryLookupEl(c, attr)
    \/ RegistryReturn

(***************************************************************************)
(* Widget construction                                                     *)
(***************************************************************************)

(* The `key` of every descriptor class. *)
WidgetKinds ==
    {"page_element", "page_element_group", "button", "checkbox", "combobox",
     "dropdown", "negative_element", "positive_element_group",
     "positive_element", "radio_selection", "raw_path", "table_selection",
     "pager", "textbox", "toggled_element"}

(* Kinds that keep PageElement.__init__. *)
BaseKinds ==
    {"page_element", "page_element_group", "negative_element",
     "positive_element_group", "positive_element"}

(* LOCATOR_MAPPING_SET *)
LocatorKeys ==
    {"class", "class_name", "css", "css_selector", "id", "link", "link_text",
     "name", "partial_link", "partial_link_text", "tag", "tag_name", "xpath"}

(* Keys of the configuration mappings a page declares widgets with. *)
ConfigKeys ==
    {"xpath", "css", "hidden", "foo", "label_xpath", "input_xpath",
     "toggle_xpath", "active_xpath", "prev_xpath", "next_xpath",
     "positive_element_xpath", "negative_element_xpath", "lookup_ctx_xpath",
     "lookup_ctx_regex_format"}

(* The option keys the key loop of a kind's __init__ has a branch for;     *)
(* the prefix families of the table and the pager are left out.            *)
KindOptions(kind) ==
    CASE kind = "button" -> {"disabled"}
      [] kind = "checkbox" -> {"toggle"}
      [] kind = "combobox" ->
           {"lookup_ctx_xpath", "multiselect_counter", "click_escape_xpath",
            "ignore_selections", "escape_delay", "populate_delay", "hidden"}
      [] kind = "table_selection" ->
           {"label_xpath", "input_xpath", "toggle_xpath", "label_parse",
            "negative_element", "scroll_el", "anonymous"}
      [] kind = "pager" ->
           {"active_xpath", "prev_xpath", "prev_disabled_xpath", "next_xpath",
            "next_disabled_xpath", "page_group_xpath", "tab_wait"}
      [] kind = "textbox" -> {"hidden"}
      [] kind = "toggled_element" ->
           {"alt_toggle_xpath", "negative_element_xpath",
            "positive_element_xpath"}
      [] OTHER -> {}

(* Whether the kind has a use for the key: a locator strategy, an option   *)
(* of the kind, or, for the dropdown and the radio selection, whose else   *)
(* branch takes the key as the name of an option, any key.                 *)
ConfigRecognizes(kind, key) ==
    \/ key \in LocatorKeys
    \/ key \in KindOptions(kind)
    \/ kind \in {"dropdown", "radio_selection"}

(* PageElement.translate_arguments of kwargs without passthrough: nothing  *)
(* for an empty mapping, ValueError for more than one key and for a key    *)
(* that is no locator strategy.                                            *)
TranslateArguments(kwargs) ==
    CASE kwargs = {} -> "None"
      [] Cardinality(kwargs) > 1 -> "ValueError"
      [] kwargs \cap LocatorKeys = {} -> "ValueError"
      [] OTHER -> "locator"

(* The checks of the key loop and behind it on keys the kind recognizes:  *)
(* the dropdown needs a locator and its lookup context and regex format    *)
(* both or neither, the table its label locator and the input and toggle   *)
(* locators both or neither, the pager its three locators, the toggled     *)
(* element exactly one check condition.                                    *)
ConfigRequired(kind, config) ==
    CASE kind = "dropdown" ->
           /\ config \cap LocatorKeys # {}
           /\ "lookup_ctx_xpath" \in config
                 <=> "lookup_ctx_regex_format" \in config
      [] kind = "table_selection" ->
           /\ "label_xpath" \in config
           /\ "input_xpath" \in config <=> "toggle_xpath" \in config
      [] kind = "pager" ->
           {"active_xpath", "prev_xpath", "next_xpath"} \subseteq config
      [] kind = "toggled_element" ->
           Cardinality(config \cap {"positive_element_xpath",
                                    "negative_element_xpath"}) = 1
      [] OTHER -> TRUE

(* __init__ of the kind on the mapping: the base kinds hand all of it      *)
(* to translate_arguments; the others hand it the locator keys, then run   *)
(* the key loop over the rest, then the checks of required keys.           *)
ConstructOutcome(kind, config) ==
    IF kind \in BaseKinds
    THEN IF TranslateArguments(config) = "ValueError"
         THEN "ValueError" ELSE "constructed"
    ELSE CASE TranslateArguments(config \cap LocatorKeys) = "ValueError" ->
                "ValueError"
           [] \E key \in config : ~ConfigRecognizes(kind, key) ->
                "PageElementYamlException"
           [] ~ConfigRequired(kind, config) -> "PageElementYamlException"
           [] OTHER -> "constructed"

(* No widget is being constructed. *)
ConstructIdle ==
    [pc |-> "idle", kind |-> "none", config |-> {}, result |-> "none"]

ConstructFrame == UNCHANGED <<button, checkbox, toggled, table, dropdown, pager, combobox, wait, positive, negative, radio, registry, query, timed>>

(* A page class declares a widget of the kind with the mapping. *)
ConstructWidget(kind, config) ==
    /\ construct.pc = "idle"
    /\ construct' = [pc |-> "done", kind |-> kind, config |-> config,
                     result |-> ConstructOutcome(kind, config)]
    /\ ConstructFrame

(* The declaration is done with. *)
ConstructReturn ==
    /\ construct.pc = "done"
    /\ construct' = ConstructIdle
    /\ ConstructFrame

ConstructNext ==
    \/ /\ construct.pc = "idle"
       /\ \E kind \in WidgetKinds, config \in SUBSET ConfigKeys :
            ConstructWidget(kind, config)
    \/ ConstructReturn

(***************************************************************************)
(* PageElement queries: is_present, is_visible, is_invisible, is_clickable *)
(***************************************************************************)
(* A widget with a locator on a page that changes out of band.  The page   *)
(* holds the element or not; a handle found by locate() goes stale when    *)
(* the element is removed or rendered anew before the handle is read.      *)

QueryKinds == {"is_present", "is_visible", "is_invisible", "is_clickable"}

(* What the page shows of the element. *)
QueryPages == [present : BOOLEAN, displayed : BOOLEAN, enabled : BOOLEAN]

(* The widget between two queries on page pg; missed tells that a driver   *)
(* call of the running query found the element absent or its handle stale. *)
QueryIdle(pg) ==
    [page |-> pg, pc |-> "idle", kind |-> "none", handle |-> "none",
     missed |-> FALSE, result |-> "none"]

(* str(bool) *)
QueryBool(b) == IF b THEN "True" ELSE "False"

(* is_present(): locate() inside try, except WebDriverException: False *)
QueryIsPresent(pg) == QueryBool(pg.present)

(* The state the query returns from the handle of the second locate(). *)
QueryState(kind, pg) ==
    CASE kind = "is_visible" -> QueryBool(pg.displayed)
      [] kind = "is_invisible" -> QueryBool(~pg.displayed)
      [] kind = "is_clickable" -> QueryBool(pg.enabled)

QueryFrame == UNCHANGED <<button, checkbox, toggled, table, dropdown, pager, combobox, wait, positive, negative, radio, registry, construct, timed>>

(* The caller asks one of the four queries. *)
QueryCall(kind) ==
    /\ query.pc = "idle"
    /\ query' = [QueryIdle(query.page) EXCEPT !.pc = "present", !.kind = kind]
    /\ QueryFrame

(* self.is_present(), the whole of is_present and the guard of the other   *)
(* three queries.                                                          *)
QueryPresence ==
    /\ query.pc = "present"
    /\ LET answer == QueryIsPresent(query.page)
           q == [query EXCEPT !.missed = ~query.page.present]
       IN query' =
            IF answer # "True" \/ query.kind = "is_present"
              THEN [q EXCEPT !.pc = "done", !.result = answer]
              ELSE [q EXCEPT !.pc = "locate"]
    /\ QueryFrame

(* self.locate() of the return statement, outside any try. *)
QueryLocate ==
    /\ query.pc = "locate"
    /\ query' =
         IF query.page.present
           THEN [query EXCEPT !.pc = "read", !.handle = "fresh"]
           ELSE [query EXCEPT !.pc = "done", !.missed = TRUE,
                              !.result = "NoSuchElementException"]
    /\ QueryFrame

(* is_displayed() or is_enabled() on the handle. *)
QueryRead ==
    /\ query.pc = "read"
    /\ query' =
         IF query.handle = "stale"
           THEN [query EXCEPT !.pc = "done", !.missed = TRUE,
                              !.result = "StaleElementReferenceException"]
           ELSE [query EXCEPT !.pc = "done",
                              !.result = QueryState(query.kind, query.page)]
    /\ QueryFrame

(* The page changes between two driver calls; a handle in hand goes stale  *)
(* when the element is removed or rendered anew.                           *)
QueryPageChange ==
    /\ \E pg \in QueryPages, anew \in BOOLEAN :
         /\ pg # query.page \/ anew
         /\ query' = [query EXCEPT
                        !.page = pg,
                        !.handle = IF query.handle = "fresh"
                                        /\ (~pg.present \/ anew)
                                     THEN "stale" ELSE @]
    /\ QueryFrame

(* The query has returned or raised. *)
QueryReturn ==
    /\ query.pc = "done"
    /\ query' = QueryIdle(query.page)
    /\ QueryFrame

QueryNext ==
    \/ \E kind \in QueryKinds : QueryCall(kind)
    \/ QueryPresence
    \/ QueryLocate
    \/ QueryRead
    \/ QueryPageChange
    \/ QueryReturn

(***************************************************************************)
(* PageElement.timed_lookup                                                *)
(***************************************************************************)
(* The timeout of the page context a widget belongs to, and one call of    *)
(* timed_lookup at a time.  Timeouts are counted in seconds.               *)

(* Timeouts a page context is configured with or a caller passes. *)
TimedTimeouts == 0..MaxTimeout

(* How the widget get inside the lookup ends. *)
TimedAnswers ==
    {"ok", "TimeoutException", "StaleElementReferenceException",
     "PageElementStateException"}

(* The context with its timeout and no lookup running; before is the       *)
(* timeout the context had when the lookup was called, seen the timeout    *)
(* the widget get read.                                                    *)
TimedIdle(timeout) ==
    [timeout |-> timeout, pc |-> "idle", t |-> 0, default_timeout |-> 0,
     before |-> 0, seen |-> 0, result |-> "none"]

(* A finally clause that leaves the timeout of the lookup in place. *)
TimedRestoreSkipped(tl) == tl.timeout

(* finally: self.pageobj.timeout = default_timeout *)
TimedRestore(tl) == tl.default_timeout

TimedFrame == UNCHANGED <<button, checkbox, toggled, table, dropdown, pager, combobox, wait, positive, negative, radio, registry, construct, query>>

(* page.timeout = timeout, between two lookups *)
TimedSetTimeout(timeout) ==
    /\ timed.pc = "idle"
    /\ timeout # timed.timeout
    /\ timed' = TimedIdle(timeout)
    /\ TimedFrame

(* timed_lookup(t) up to the try: the swap of the two timeouts. *)
TimedLookup(t) ==
    /\ timed.pc = "idle"
    /\ timed' = [timed EXCEPT !.pc = "get", !.t = t,
                              !.default_timeout = timed.timeout,
                              !.before = timed.timeout, !.timeout = t,
                              !.seen = 0, !.result = "none"]
    /\ TimedFrame

(* getattr(self.pageobj.el, self.el_name): the widget get, which reads the *)
(* timeout of the context for its waits and returns or raises.             *)
TimedGet(answer) ==
    /\ timed.pc = "get"
    /\ timed' = [timed EXCEPT !.pc = "finally", !.seen = timed.timeout,
                              !.result = answer]
    /\ TimedFrame

(* The finally clause, on return and on every exception. *)
TimedFinally ==
    /\ timed.pc = "finally"
    /\ timed' = [timed EXCEPT !.pc = "done", !.timeout = TimedRestore(timed)]
    /\ TimedFrame

(* timed_lookup has returned or raised. *)
TimedReturn ==
    /\ timed.pc = "done"
    /\ timed' = TimedIdle(timed.timeout)
    /\ TimedFrame

TimedNext ==
    \/ \E timeout \in TimedTimeouts : TimedSetTimeout(timeout)
    \/ \E t \in TimedTimeouts : TimedLookup(t)
    \/ \E answer \in TimedAnswers : TimedGet(answer)
    \/ TimedFinally
    \/ TimedReturn

(***************************************************************************)
(* Specifications                                                          *)
(***************************************************************************)

ButtonRest == button = ButtonIdle(FALSE)
CheckboxRest == checkbox = CheckboxIdle(FALSE, FALSE)
ToggledRest == toggled = ToggledIdle("positive", FALSE, "absent")
TableRest == table = TableIdle(FALSE, <<>>, <<>>)
DropdownRest == dropdown = DropdownIdle({}, FALSE)
PagerRest == pager = PagerIdle({}, FALSE, FALSE, FALSE, 0, Str(1))
ComboBoxRest == combobox = ComboBoxIdle(FALSE, FALSE, 0, FALSE)
WaitRest == wait = WaitIdle([i \in 1..(MaxTimeout + 1) |-> <<>>])
PositiveRest == positive = PositiveIdle("positive_element", 1)
NegativeRest == negative = NegativeIdle(1)
RadioRest == radio = RadioIdle(<<>>, FALSE)
RegistryRest == registry = RegistryIdle({})
ConstructRest == construct = ConstructIdle
QueryRest == query = QueryIdle([present |-> FALSE, displayed |-> FALSE, enabled |-> FALSE])
TimedRest == timed = TimedIdle(1)

InitButton ==
    /\ \E d \in BOOLEAN : button = ButtonIdle(d)
    /\ CheckboxRest /\ ToggledRest /\ TableRest /\ DropdownRest
    /\ PagerRest /\ ComboBoxRest /\ WaitRest /\ PositiveRest /\ NegativeRest
    /\ RadioRest /\ RegistryRest /\ ConstructRest /\ QueryRest /\ TimedRest

SpecButton == InitButton /\ [][ButtonNext]_vars

InitCheckbox ==
    /\ \E t \in BOOLEAN, s \in BOOLEAN : checkbox = CheckboxIdle(t, s)
    /\ ButtonRest /\ ToggledRest /\ TableRest /\ DropdownRest
    /\ PagerRest /\ ComboBoxRest /\ WaitRest /\ PositiveRest /\ NegativeRest
    /\ RadioRest /\ RegistryRest /\ ConstructRest /\ QueryRest /\ TimedRest

SpecCheckbox == InitCheckbox /\ [][CheckboxNext]_vars

InitToggled ==
    /\ \E ct \in {"positive", "negative"}, alt \in BOOLEAN,
          ind \in IndicatorStates : toggled = ToggledIdle(ct, alt, ind)
    /\ ButtonRest /\ CheckboxRest /\ TableRest /\ DropdownRest
    /\ PagerRest /\ ComboBoxRest /\ WaitRest /\ PositiveRest /\ NegativeRest
    /\ RadioRest /\ RegistryRest /\ ConstructRest /\ QueryRest /\ TimedRest

SpecToggled == InitToggled /\ [][ToggledNext]_vars

InitTableOf(anon) ==
    /\ \E labels \in SeqsUpTo(LabelTexts, MaxRows),
          inputs \in SeqsUpTo(BOOLEAN, MaxInputs) :
         table = TableIdle(anon, labels, inputs)
    /\ ButtonRest /\ CheckboxRest /\ ToggledRest /\ DropdownRest
    /\ PagerRest /\ ComboBoxRest /\ WaitRest /\ PositiveRest /\ NegativeRest
    /\ RadioRest /\ RegistryRest /\ ConstructRest /\ QueryRest /\ TimedRest

InitTable == InitTableOf(FALSE)

SpecTable == InitTable /\ [][TableNext]_vars

InitTableAnonymous == InitTableOf(TRUE)

SpecTableAnonymous == InitTableAnonymous /\ [][TableNext]_vars

InitTableParsed ==
    /\ \E parse \in LabelParses, labels \in SeqsUpTo(ParsedLabelTexts, MaxRows),
          inputs \in SeqsUpTo(BOOLEAN, 1) :
         table = TableIdleParsed(parse, labels, inputs)
    /\ ButtonRest /\ CheckboxRest /\ ToggledRest /\ DropdownRest
    /\ PagerRest /\ ComboBoxRest /\ WaitRest /\ PositiveRest /\ NegativeRest
    /\ RadioRest /\ RegistryRest /\ ConstructRest /\ QueryRest /\ TimedRest

SpecTableParsed == InitTableParsed /\ [][TableNext]_vars

(* Labels of a table of n rows: "r0", "r1", ... *)
RowLabels(n) == [i \in 1..n |-> <<"r">> \o Str(i - 1)]

InitTableRows ==
    /\ \E selectable \in BOOLEAN, n \in 0..MaxRows,
          inputs \in SeqsUpTo(BOOLEAN, MaxInputs), toggles \in 0..MaxInputs :
         table = TableIdleRows(selectable, RowLabels(n), inputs, toggles, n)
    /\ ButtonRest /\ CheckboxRest /\ ToggledRest /\ DropdownRest
    /\ PagerRest /\ ComboBoxRest /\ WaitRest /\ PositiveRest /\ NegativeRest
    /\ RadioRest /\ RegistryRest /\ ConstructRest /\ QueryRest /\ TimedRest

SpecTableRows == InitTableRows /\ [][TableNext]_vars

InitTableMutated ==
    /\ \E pg \in TablePages :
         table = TableIdle(FALSE, pg.labels, pg.inputs)
    /\ ButtonRest /\ CheckboxRest /\ ToggledRest /\ DropdownRest
    /\ PagerRest /\ ComboBoxRest /\ WaitRest /\ PositiveRest /\ NegativeRest
    /\ RadioRest /\ RegistryRest /\ ConstructRest /\ QueryRest /\ TimedRest

SpecTableMutated == InitTableMutated /\ [][TableMutatedNext]_vars

InitDropdown ==
    /\ \E opts \in SUBSET OptionNames, lookup \in BOOLEAN :
         dropdown = DropdownIdle(opts, lookup)
    /\ ButtonRest /\ CheckboxRest /\ ToggledRest /\ TableRest
    /\ PagerRest /\ ComboBoxRest /\ WaitRest /\ PositiveRest /\ NegativeRest
    /\ RadioRest /\ RegistryRest /\ ConstructRest /\ QueryRest /\ TimedRest

SpecDropdown == InitDropdown /\ [][DropdownNext]_vars

(* Descriptors a page declares: the required locators alone, or with one  *)
(* kind of option: fixed page locators, disabled indicators, a page group. *)
PagerConfigs ==
    {c \in [page_locators : SUBSET PagerKeys, prev_disabled_locator : BOOLEAN,
            next_disabled_locator : BOOLEAN, page_group_locator : BOOLEAN] :
       LET keyed == c.page_locators # {}
           guarded == c.prev_disabled_locator \/ c.next_disabled_locator
       IN /\ ~(keyed /\ guarded)
          /\ c.page_group_locator => ~keyed /\ ~guarded}

InitPager ==
    /\ \E c \in PagerConfigs, stride \in PagerStrides, active \in PageTexts :
         pager = PagerIdle(c.page_locators, c.prev_disabled_locator,
                           c.next_disabled_locator, c.page_group_locator,
                           stride, active)
    /\ ButtonRest /\ CheckboxRest /\ ToggledRest /\ TableRest /\ DropdownRest
    /\ ComboBoxRest /\ WaitRest /\ PositiveRest /\ NegativeRest /\ RadioRest
    /\ RegistryRest /\ ConstructRest /\ QueryRest /\ TimedRest

SpecPager == InitPager /\ [][PagerNext]_vars

(* The running loop takes its next pass. *)
SpecPagerFair == SpecPager /\ WF_vars(PagerNext)

(* escape_delay values: no escape, at once, after a wait. *)
EscapeDelays == {-1, 0, 1}

(* A combobox without lookup context has the other options at default. *)
InitComboBox ==
    /\ \E lookup_ctx \in BOOLEAN, ignore_selections \in BOOLEAN,
          escape_delay \in EscapeDelays, click_escape \in BOOLEAN :
         /\ ~lookup_ctx =>
              ~ignore_selections /\ escape_delay = 0 /\ ~click_escape
         /\ combobox = ComboBoxIdle(lookup_ctx, ignore_selections,
                                    escape_delay, click_escape)
    /\ ButtonRest /\ CheckboxRest /\ ToggledRest /\ TableRest /\ DropdownRest
    /\ PagerRest /\ WaitRest /\ PositiveRest /\ NegativeRest /\ RadioRest
    /\ RegistryRest /\ ConstructRest /\ QueryRest /\ TimedRest

SpecComboBox == InitComboBox /\ [][ComboBoxNext]_vars

InitWait ==
    /\ \E schedule \in WaitSchedules : wait = WaitIdle(schedule)
    /\ ButtonRest /\ CheckboxRest /\ ToggledRest /\ TableRest /\ DropdownRest
    /\ PagerRest /\ ComboBoxRest /\ PositiveRest /\ NegativeRest /\ RadioRest
    /\ RegistryRest /\ ConstructRest /\ QueryRest /\ TimedRest

SpecWait == InitWait /\ [][WaitNext]_vars

InitPositive ==
    /\ \E key \in PositiveKinds, timeout \in WaitTimeouts :
         positive = PositiveIdle(key, timeout)
    /\ ButtonRest /\ CheckboxRest /\ ToggledRest /\ TableRest /\ DropdownRest
    /\ PagerRest /\ ComboBoxRest /\ WaitRest /\ NegativeRest /\ RadioRest
    /\ RegistryRest /\ ConstructRest /\ QueryRest /\ TimedRest

SpecPositive == InitPositive /\ [][PositiveNext]_vars

InitNegative ==
    /\ \E timeout \in WaitTimeouts : negative = NegativeIdle(timeout)
    /\ ButtonRest /\ CheckboxRest /\ ToggledRest /\ TableRest /\ DropdownRest
    /\ PagerRest /\ ComboBoxRest /\ WaitRest /\ PositiveRest /\ RadioRest
    /\ RegistryRest /\ ConstructRest /\ QueryRest /\ TimedRest

SpecNegative == InitNegative /\ [][NegativeNext]_vars

InitRadio ==
    /\ \E list \in RadioOptionLists, own \in BOOLEAN :
         radio = RadioIdle(list, own)
    /\ ButtonRest /\ CheckboxRest /\ ToggledRest /\ TableRest /\ DropdownRest
    /\ PagerRest /\ ComboBoxRest /\ WaitRest /\ PositiveRest /\ NegativeRest
    /\ RegistryRest /\ ConstructRest /\ QueryRest /\ TimedRest

SpecRadio == InitRadio /\ [][RadioNext]_vars

InitRegistry ==
    /\ \E widgets \in SUBSET WidgetNames : registry = RegistryIdle(widgets)
    /\ ButtonRest /\ CheckboxRest /\ ToggledRest /\ TableRest /\ DropdownRest
    /\ PagerRest /\ ComboBoxRest /\ WaitRest /\ PositiveRest /\ NegativeRest
    /\ RadioRest /\ ConstructRest /\ QueryRest /\ TimedRest

SpecRegistry == InitRegistry /\ [][RegistryNext]_vars

InitConstruct ==
    /\ construct = ConstructIdle
    /\ ButtonRest /\ CheckboxRest /\ ToggledRest /\ TableRest /\ DropdownRest
    /\ PagerRest /\ ComboBoxRest /\ WaitRest /\ PositiveRest /\ NegativeRest
    /\ RadioRest /\ RegistryRest /\ QueryRest /\ TimedRest

SpecConstruct == InitConstruct /\ [][ConstructNext]_vars

InitQuery ==
    /\ \E pg \in QueryPages : query = QueryIdle(pg)
    /\ ButtonRest /\ CheckboxRest /\ ToggledRest /\ TableRest /\ DropdownRest
    /\ PagerRest /\ ComboBoxRest /\ WaitRest /\ PositiveRest /\ NegativeRest
    /\ RadioRest /\ RegistryRest /\ ConstructRest /\ TimedRest

SpecQuery == InitQuery /\ [][QueryNext]_vars

InitTimed ==
    /\ \E timeout \in TimedTimeouts : timed = TimedIdle(timeout)
    /\ ButtonRest /\ CheckboxRest /\ ToggledRest /\ TableRest /\ DropdownRest
    /\ PagerRest /\ ComboBoxRest /\ WaitRest /\ PositiveRest /\ NegativeRest
    /\ RadioRest /\ RegistryRest /\ ConstructRest /\ QueryRest

SpecTimed == InitTimed /\ [][TimedNext]_vars

(***************************************************************************)
(* Properties                                                              *)
(***************************************************************************)

(* C1: Button.click() on a button whose configured `disabled` indicator    *)
(* locator resolves at the time of the call raises the state error and     *)
(* issues neither an ordinary click nor a force-click to the driver.       *)
ButtonDisabledRaisesWithoutClick ==
    (button.disabled /\ button.disabled_found) =>
        /\ button.pc # "try"
        /\ button.result = "PageElementStateException"
        /\ Count(button.log, "click") = 0
        /\ Count(button.log, "force_click") = 0

ButtonDisabledRaisesWitness ==
    /\ button.pc = "done"
    /\ button.disabled /\ button.disabled_found
    /\ button.arg_attempts >= 1
    /\ button.result = "PageElementStateException"

(* A finished click(n >= 1) whose loop ran and in which no ordinary        *)
(* attempt succeeded.                                                      *)
ButtonEveryAttemptFailed ==
    /\ button.pc = "done"
    /\ button.arg_attempts >= 1
    /\ ~(button.disabled /\ button.disabled_found)
    /\ Count(button.log, "click") = 0

(* Force-clicks a click() made, delivered or not. *)
ButtonForceAttempts ==
    Count(button.log, "force_click") + Count(button.log, "force_click_raises")

(* C2 as stated: when every ordinary attempt of click(retry_attempts = n   *)
(* >= 1) fails with a driver exception, exactly n attempts are made, with  *)
(* a delay between consecutive attempts and nowhere else; then with        *)
(* attempt_force_on_fail exactly one force-click is done, last, and        *)
(* click() succeeds; without it no force-click is done and the failure of  *)
(* the last attempt is what click() raises.                                *)
ButtonRetriesThenForceOrRaise ==
    ButtonEveryAttemptFailed =>
        LET log == button.log
            fails == {i \in DOMAIN log : log[i] \in ButtonFailures}
            last == CHOOSE i \in fails : \A j \in fails : j <= i
        IN /\ Cardinality(fails) = button.arg_attempts
           /\ Count(log, "sleep") = button.arg_attempts - 1
           /\ \A i \in fails : i # last => log[i + 1] = "sleep"
           /\ \A i \in Positions(log, "sleep") :
                 (i - 1) \in fails /\ (i + 1) \in fails
           /\ button.attempt_force_on_fail =>
                 /\ ButtonForceAttempts = 1
                 /\ log[Len(log)] \in {"force_click", "force_click_raises"}
                 /\ button.result = "ok"
           /\ ~button.attempt_force_on_fail =>
                 /\ ButtonForceAttempts = 0
                 /\ last = Len(log)
                 /\ button.result = log[last]

(* C2 amended: as stated, but with attempt_force_on_fail the one           *)
(* force-click, made last, either is delivered, and click() succeeds, or   *)
(* raises, and click() raises what the force-click raised.                 *)
ButtonRetriesThenForceOrRaiseAmended ==
    ButtonEveryAttemptFailed =>
        LET log == button.log
            fails == {i \in DOMAIN log : log[i] \in ButtonFailures}
            last == CHOOSE i \in fails : \A j \in fails : j <= i
        IN /\ Cardinality(fails) = button.arg_attempts
           /\ Count(log, "sleep") = button.arg_attempts - 1
           /\ \A i \in fails : i # last => log[i + 1] = "sleep"
           /\ \A i \in Positions(log, "sleep") :
                 (i - 1) \in fails /\ (i + 1) \in fails
           /\ button.attempt_force_on_fail =>
                 /\ ButtonForceAttempts = 1
                 /\ last = Len(log) - 1
                 /\ \/ log[Len(log)] = "force_click" /\ button.result = "ok"
                    \/ /\ log[Len(log)] = "force_click_raises"
                       /\ button.result \in ButtonForceFailures
           /\ ~button.attempt_force_on_fail =>
                 /\ ButtonForceAttempts = 0
                 /\ last = Len(log)
                 /\ button.result = log[last]

(* Every attempt of click(MaxRetryAttempts) failed and the force-click     *)
(* was delivered.                                                          *)
ButtonRetriesWitness ==
    /\ ButtonEveryAttemptFailed
    /\ button.arg_attempts = MaxRetryAttempts
    /\ button.attempt_force_on_fail
    /\ Count(button.log, "force_click") = 1
    /\ Count(button.log, "sleep") >= 1
    /\ button.result = "ok"

(* Every attempt failed and the force-click found no element. *)
ButtonForceRaisesWitness ==
    /\ ButtonEveryAttemptFailed
    /\ button.attempt_force_on_fail
    /\ Count(button.log, "force_click_raises") = 1
    /\ button.result = "NoSuchElementException"

(* C3: Checkbox set(t) issues no click when the selected state read is t   *)
(* and exactly one click when it is not; a set(t) made right after a       *)
(* set(t) whose click flipped the state issues no click.                   *)
CheckboxSetIdempotent ==
    /\ checkbox.last.valid =>
          CheckboxClicks(checkbox.last.log) =
              IF checkbox.last.checked = checkbox.last.target THEN 0 ELSE 1
    /\ ( /\ checkbox.last.valid /\ checkbox.last.follows
         /\ checkbox.prev.valid /\ checkbox.prev.flipped
         /\ checkbox.prev.target = checkbox.last.target )
       => CheckboxClicks(checkbox.last.log) = 0

CheckboxSetIdempotentWitness ==
    /\ checkbox.last.valid /\ checkbox.last.follows
    /\ checkbox.prev.valid /\ checkbox.prev.flipped
    /\ checkbox.prev.target = checkbox.last.target
    /\ checkbox.last.target
    /\ CheckboxClicks(checkbox.prev.log) = 1
    /\ CheckboxClicks(checkbox.last.log) = 0

(* The on/off state the indicator stands for. *)
ToggledIndicatedOn(check_type, seen) ==
    IF check_type = "positive" THEN seen = "displayed" ELSE seen # "displayed"

(* C4: ToggledElement set(v) reads the state off the indicator (positive:  *)
(* displayed is on, hidden or absent is off; negative: the inverse),       *)
(* issues no click when that state is v and exactly one when it is not,    *)
(* and that click goes to the alternate toggle locator iff one is          *)
(* configured and v is false, else to the primary locator.                 *)
ToggledSetTogglesOnMismatch ==
    toggled.last.valid =>
        LET log == toggled.last.log
            on == ToggledIndicatedOn(toggled.check_type, toggled.last.seen)
            alt == toggled.alt_toggle /\ ~toggled.last.value
        IN /\ Count(log, "click_locator") + Count(log, "click_alt_toggle") =
                 IF on = toggled.last.value THEN 0 ELSE 1
           /\ Count(log, "click_alt_toggle") = 1 => alt
           /\ Count(log, "click_locator") = 1 => ~alt

ToggledSetWitness ==
    /\ toggled.last.valid
    /\ toggled.check_type = "negative"
    /\ toggled.last.seen = "absent"
    /\ toggled.alt_toggle /\ ~toggled.last.value
    /\ Count(toggled.last.log, "click_alt_toggle") = 1

(* No two positions of the sequence hold the same text. *)
LabelsDistinct(labels) ==
    \A i, j \in DOMAIN labels : i # j => labels[i] # labels[j]

(* C5: a TableSelection read of a table whose label locator matches N      *)
(* elements and whose input locator matches M # N elements fails with the  *)
(* state error.                                                            *)
TableCountMismatchFails ==
    (table.snapshot.status # "none" /\ Len(table.inputs) # Len(table.labels))
        => table.snapshot.status = "PageElementStateException"

(* C6: a TableSelection read with N pairwise distinct labels and N input   *)
(* matches returns N rows whose idx values are exactly 0..N-1, the row of  *)
(* idx i carrying the label of the i-th label match, and iterating the     *)
(* snapshot gives the rows in increasing idx order.                        *)
TableReadAlignsRows ==
    ( /\ table.snapshot.status # "none"
      /\ LabelsDistinct(table.labels)
      /\ Len(table.inputs) = Len(table.labels) )
    => LET n == Len(table.labels)
           rows == table.snapshot.rows
           iter == table.snapshot.iter
       IN /\ table.snapshot.status = "ok"
          /\ Len(rows) = n
          /\ {rows[r].idx : r \in DOMAIN rows} = 0..(n - 1)
          /\ \A r \in DOMAIN rows : rows[r].label = table.labels[rows[r].idx + 1]
          /\ Len(iter) = n
          /\ \A i \in DOMAIN iter : iter[i].idx = i - 1
          /\ {iter[i] : i \in DOMAIN iter} = {rows[r] : r \in DOMAIN rows}

TableReadAlignsRowsWitness ==
    /\ table.snapshot.status = "ok"
    /\ ~table.anonymous
    /\ LabelsDistinct(table.labels)
    /\ Len(table.labels) >= 3
    /\ Len(table.inputs) = Len(table.labels)
    /\ Len(table.snapshot.iter) = Len(table.labels)

(* C7: a non-anonymous TableSelection read in which two label matches give *)
(* the same row key fails with the state error; a snapshot that is         *)
(* returned holds one row per label match, each under its own key.         *)
TableDuplicateKeyFails ==
    (~table.anonymous /\ table.snapshot.status # "none") =>
        /\ ~LabelsDistinct(table.labels) =>
              /\ table.snapshot.status = "PageElementStateException"
              /\ table.snapshot.rows = <<>>
        /\ table.snapshot.status = "ok" =>
              LET rows == table.snapshot.rows
              IN /\ Len(rows) = Len(table.labels)
                 /\ \A r, q \in DOMAIN rows : r # q => rows[r].key # rows[q].key
                 /\ \A r \in DOMAIN rows :
                       rows[r].key = table.labels[rows[r].idx + 1]

TableDuplicateKeyWitness ==
    /\ ~table.anonymous
    /\ table.snapshot.status = "PageElementStateException"
    /\ Len(table.labels) >= 3
    /\ table.labels[1] # table.labels[2]
    /\ table.labels[1] = table.labels[3]

(* C8: an anonymous TableSelection read in which two label matches have    *)
(* the same label fails with the state error, as in non-anonymous mode.    *)
TableAnonymousDuplicateFails ==
    ( /\ table.anonymous
      /\ table.snapshot.status # "none"
      /\ ~LabelsDistinct(table.labels) )
    => table.snapshot.status = "PageElementStateException"

(* C9: a DropdownSelector set of a value that is no declared option, with  *)
(* the lookup context present: one matching candidate is clicked exactly   *)
(* once and the set succeeds; no matching candidate, or two or more, fail  *)
(* with the state error and click no candidate; the state error ends the   *)
(* set in the pass that raised it.                                         *)
DropdownLookupOutcome ==
    (dropdown.pc = "done" /\ dropdown.seen.branch = "lookup") =>
        /\ (dropdown.seen.matches = 1 /\ dropdown.tries = 1) =>
              /\ dropdown.result = "ok"
              /\ Count(dropdown.log, "click_match") = 1
        /\ dropdown.seen.matches # 1 =>
              /\ dropdown.result = "PageElementStateException"
              /\ Count(dropdown.log, "click_match") = 0
        /\ dropdown.result = "PageElementStateException" =>
              dropdown.attempts > 0

(* C10: a static-mode DropdownSelector set of a value that is no declared  *)
(* option fails with the value error, on the first pass of the loop, and   *)
(* with no other kind of error.                                            *)
DropdownIllegalOptionFailsAtOnce ==
    ( /\ dropdown.pc = "done"
      /\ ~dropdown.lookup_ctx
      /\ dropdown.value \notin dropdown.options )
    => /\ dropdown.result = "PageElementValueException"
       /\ dropdown.tries = 1

(* The set runs or ran the integer loop. *)
PagerIntegerMode ==
    /\ pager.pc \in {"loop", "done"}
    /\ IsIntText(pager.value)
    /\ pager.value \notin pager.page_locators

PagerTotalClicks ==
    pager.clicks["previous"] + pager.clicks["next"] + pager.clicks["tab"]
      + pager.clicks["key"]

(* C11: an integer-mode set to page t, without a page group, on a pager    *)
(* that moves by one page per button click and has a page t: it never      *)
(* clicks the button pointing away from t, never a tab or a fixed locator, *)
(* and it returns normally on page t after t-c clicks on "next" if the     *)
(* set started on a page c below t, c-t clicks on "previous" if above,     *)
(* and no click if c = t.                                                  *)
PagerUnitStepsReachTarget ==
    (/\ PagerIntegerMode
     /\ ~pager.page_group_locator
     /\ pager.stride = 1
     /\ IsIntText(pager.start)
     /\ pager.tgtintval \in 1..MaxPage)
    => LET c == ParseInt(pager.start)
           t == pager.tgtintval
       IN /\ pager.clicks["tab"] = 0 /\ pager.clicks["key"] = 0
          /\ t >= c => pager.clicks["previous"] = 0
          /\ t <= c => pager.clicks["next"] = 0
          /\ pager.pc = "done" =>
               /\ pager.result = "ok"
               /\ pager.active = Str(t)
               /\ t >= c => pager.clicks["next"] = t - c
               /\ t <= c => pager.clicks["previous"] = c - t

(* From page 1 to the last page. *)
PagerUnitStepsWitness ==
    /\ PagerIntegerMode /\ pager.pc = "done"
    /\ ~pager.page_group_locator /\ pager.stride = 1
    /\ pager.start = Str(1) /\ pager.tgtintval = MaxPage
    /\ pager.clicks["next"] = MaxPage - 1 /\ pager.clicks["previous"] = 0
    /\ pager.active = Str(MaxPage) /\ pager.result = "ok"

(* C12: a pass of the integer loop that reads the page of the pass before  *)
(* (and not the target) ends the set normally without a click; a set on a  *)
(* pager that never moves, started off the target, returns after one click. *)
PagerNoProgressReturns ==
    [][/\ (/\ pager.pc = "loop"
           /\ IsIntText(pager.active)
           /\ pager.lastintval = <<ParseInt(pager.active)>>)
          => /\ pager'.pc = "done" /\ pager'.result = "ok"
             /\ pager'.clicks = pager.clicks
             /\ pager'.active = pager.active
       /\ (/\ pager'.pc = "done" /\ pager'.result = "ok"
           /\ IsIntText(pager'.value)
           /\ pager'.value \notin pager'.page_locators
           /\ pager'.stride = 0
           /\ pager'.start # Str(pager'.tgtintval))
          => /\ pager'.clicks["previous"] + pager'.clicks["next"]
                  + pager'.clicks["tab"] = 1
             /\ pager'.clicks["key"] = 0]_vars

(* A pager that never moves, set to a page above the one it shows. *)
PagerNoProgressWitness ==
    /\ PagerIntegerMode /\ pager.pc = "done" /\ pager.result = "ok"
    /\ pager.stride = 0 /\ pager.active # Str(pager.tgtintval)
    /\ pager.lastintval = <<ParseInt(pager.active)>>
    /\ pager.clicks["next"] = 1 /\ PagerTotalClicks = 1

(* C13: a set to a declared page key clicks the fixed locator declared for *)
(* that key once, clicks nothing else, and returns.                        *)
PagerNamedKeyClicksItsLocator ==
    (pager.pc = "done" /\ pager.value \in pager.page_locators)
    => /\ pager.result = "ok"
       /\ pager.clicks["key"] = 1 /\ PagerTotalClicks = 1
       /\ pager.clicked = pager.value

(* The set was to "previous" or "next". *)
PagerStepMode ==
    /\ pager.pc = "done"
    /\ pager.value \in {<<"previous">>, <<"next">>}
    /\ pager.value \notin pager.page_locators

(* C14: a set to "previous" or "next" whose button has a disabled locator  *)
(* that finds its indicator fails with the state error without a click;    *)
(* any other clicks that button once and nothing else, and fails with the  *)
(* state error exactly if the active text read after the click is the text *)
(* read before it.                                                         *)
PagerStepOutcome ==
    PagerStepMode
    => LET target == pager.value[1]
           configured == IF target = "previous"
                           THEN pager.prev_disabled_locator
                           ELSE pager.next_disabled_locator
       IN IF configured /\ pager.disabled_shown
            THEN /\ pager.result = "PageElementStateException"
                 /\ PagerTotalClicks = 0
                 /\ pager.active = pager.start
            ELSE /\ pager.clicks[target] = 1 /\ PagerTotalClicks = 1
                 /\ pager.prevtabval = pager.start
                 /\ pager.result =
                      IF pager.active = pager.prevtabval
                        THEN "PageElementStateException" ELSE "ok"

(* "previous" refused on the first page of a pager with only the previous  *)
(* button guarded.                                                         *)
PagerStepDisabledWitness ==
    /\ PagerStepMode /\ pager.value = <<"previous">>
    /\ pager.prev_disabled_locator /\ ~pager.next_disabled_locator
    /\ pager.disabled_shown
    /\ pager.result = "PageElementStateException" /\ PagerTotalClicks = 0

(* C15: a set whose value is no page key, not "previous" and not "next"    *)
(* fails with the value error before any click if the value is no integer, *)
(* and with the value error if the active text read in the loop is no      *)
(* integer; neither fails with the configuration error or the state error. *)
PagerNonIntegerIsValueError ==
    (/\ pager.pc = "done"
     /\ pager.value \notin pager.page_locators
     /\ pager.value \notin {<<"previous">>, <<"next">>})
    => /\ ~IsIntText(pager.value)
          => /\ pager.result = "PageElementValueException"
             /\ PagerTotalClicks = 0
       /\ (IsIntText(pager.value) /\ ~IsIntText(pager.active))
          => pager.result = "PageElementValueException"

(* C16: an integer-mode set that has entered its loop returns or raises.   *)
PagerSetTerminates == (pager.pc = "loop") ~> (pager.pc = "done")

(* Times the value was typed during its fill. *)
ComboTyped ==
    combobox.calls["send_keys_opt"] + combobox.calls["actions_send_keys_opt"]

ComboDismissals == combobox.calls["click_escape"] + combobox.calls["escape"]

(* The fill of a value has been left, with selections enabled, after every *)
(* inspection of the first child found it clickable with a text in texts.  *)
ComboChildAlwaysShowed(texts) ==
    /\ combobox.pc \in {"exit", "done"}
    /\ combobox.lookup_ctx /\ ~combobox.ignore_selections
    /\ combobox.seen_values # {}
    /\ combobox.seen_values \subseteq texts
    /\ combobox.calls["child_error"] = 0
    /\ combobox.calls["child_timeout"] = 0

(* C17: a value whose lookup context is visible at the first wait and      *)
(* whose first child is clickable and shows exactly the value is typed     *)
(* once, in one fill; the first child is inspected and clicked once, the   *)
(* top text is not typed, nothing is submitted, and the fill succeeds.     *)
ComboFirstChildMatchSelects ==
    (/\ combobox.opt \in DOMAIN combobox.opts
     /\ ComboChildAlwaysShowed({combobox.opts[combobox.opt]})
     /\ combobox.calls["ctx_timeout"] = 0)
    => /\ combobox.calls["wait_ctx"] = 1 /\ ComboTyped = 1
       /\ combobox.calls["wait_child"] = 1
       /\ combobox.calls["click_child"] = 1
       /\ combobox.calls["send_keys_top_child"] = 0
       /\ combobox.calls["enter"] = 0
       /\ combobox.pending = "ok"
       /\ combobox.pc = "done" => combobox.result = "ok"

(* A set of the single value "foo" selected at the first attempt. *)
ComboFirstChildMatchWitness ==
    /\ combobox.pc = "done" /\ combobox.result = "ok"
    /\ combobox.opts = <<<<"foo">>>> /\ combobox.seen_values = {<<"foo">>}
    /\ combobox.calls["wait_ctx"] = 1 /\ combobox.calls["ctx_timeout"] = 0
    /\ combobox.calls["click_child"] = 1 /\ ComboTyped = 1

(* A set of the single value "foo" clicked the matching first child at the *)
(* first attempt and then raised the timeout of the wait for the escape    *)
(* locator.                                                                *)
ComboDismissRaisesWitness ==
    /\ combobox.pc = "done" /\ combobox.result = "TimeoutException"
    /\ combobox.raised_at = "dismiss"
    /\ combobox.opts = <<<<"foo">>>> /\ combobox.seen_values = {<<"foo">>}
    /\ combobox.calls["wait_ctx"] = 1 /\ combobox.calls["ctx_timeout"] = 0
    /\ combobox.calls["click_child"] = 1 /\ ComboTyped = 1
    /\ combobox.calls["click_escape"] = 1

(* C18: a value whose first child shows the loading placeholder at every   *)
(* inspection fails with the timeout, and nothing is submitted.            *)
ComboLoadingExhaustionTimesOut ==
    (/\ combobox.pc = "exit"
     /\ ComboChildAlwaysShowed({t \in ChildTexts : ComboIsLoading(t)}))
    => /\ combobox.pending = "TimeoutException"
       /\ combobox.calls["enter"] = 0

(* C19: with a lookup context that is never visible the fill is made       *)
(* ComboFillAttempts times, the value typed once in each, and the timeout  *)
(* of the last context wait is what leaves the set; with a context visible *)
(* at the k-th wait there are k fills, k typings, and no timeout of a      *)
(* context wait leaves the set.                                            *)
ComboContextWaitRetries ==
    (combobox.pc = "exit" /\ combobox.lookup_ctx)
    => IF combobox.calls["ctx_timeout"] = combobox.calls["wait_ctx"]
         THEN /\ combobox.calls["wait_ctx"] = ComboFillAttempts
              /\ ComboTyped = ComboFillAttempts
              /\ combobox.pending = "TimeoutException"
              /\ combobox.raised_at = "ctx_wait"
         ELSE /\ combobox.calls["wait_ctx"] = combobox.calls["ctx_timeout"] + 1
              /\ combobox.calls["wait_ctx"] <= ComboFillAttempts
              /\ ComboTyped = combobox.calls["wait_ctx"]
              /\ combobox.raised_at # "ctx_wait"

(* In one assignment of two values the context of the first became visible *)
(* at the second wait and the value was selected, and every wait for the   *)
(* context of the second timed out.                                        *)
ComboContextWaitWitness ==
    /\ combobox.pc = "exit" /\ combobox.lookup_ctx
    /\ combobox.opt = 2 /\ combobox.fills_before = <<2>>
    /\ combobox.calls["wait_ctx"] = ComboFillAttempts
    /\ combobox.calls["ctx_timeout"] = ComboFillAttempts
    /\ ComboTyped = ComboFillAttempts
    /\ combobox.pending = "TimeoutException"
    /\ combobox.raised_at = "ctx_wait"

(* The context became visible at the last wait and the value was selected. *)
ComboContextLateWitness ==
    /\ combobox.pc = "exit" /\ combobox.lookup_ctx
    /\ combobox.calls["wait_ctx"] = ComboFillAttempts
    /\ combobox.calls["ctx_timeout"] = ComboFillAttempts - 1
    /\ ComboTyped = ComboFillAttempts
    /\ combobox.pending = "ok"

(* The context became visible at the first wait, and the timeout of the    *)
(* wait for the first child left the set.                                  *)
ComboChildTimeoutWitness ==
    /\ combobox.pc = "exit" /\ combobox.lookup_ctx
    /\ combobox.calls["wait_ctx"] = 1
    /\ combobox.pending = "TimeoutException"
    /\ combobox.raised_at = "child_wait"

(* C20: when the fill of a value is left there has been at most one        *)
(* dismissal; with escape_delay >= 0 and the dropdown still displayed it   *)
(* is a click on the escape locator if one is configured and an escape     *)
(* keypress otherwise, without a wait when escape_delay = 0; there is no   *)
(* dismissal with escape_delay < 0 or a dropdown that is not displayed.    *)
ComboDismissOnExit ==
    combobox.pc = "exit"
    => /\ ComboDismissals <= 1
       /\ (combobox.escape_delay >= 0 /\ combobox.ctx_seen = "displayed")
          => IF combobox.click_escape_locator
               THEN combobox.calls["click_escape"] = 1
               ELSE combobox.calls["escape"] = 1
       /\ combobox.escape_delay = 0 => combobox.calls["sleep_escape"] = 0
       /\ (combobox.escape_delay < 0 \/ combobox.ctx_seen # "displayed")
          => ComboDismissals = 0

(* The locator was visible at one of the polls of the finished get: its    *)
(* first match for the element, any match for the group.                   *)
PositiveBecameVisible ==
    \E i \in DOMAIN positive.pages :
       LET page == positive.pages[i]
       IN IF positive.key = "positive_element_group"
          THEN \E j \in DOMAIN page : page[j]
          ELSE page # <<>> /\ Head(page)

(* C21: a get of PositiveElement and of PositiveElementGroup returns true  *)
(* exactly when the locator (any match, for the group) was visible at a    *)
(* poll made before the context timeout elapsed, and false when the wait   *)
(* timed out; the timeout of the wait never reaches the caller as an       *)
(* error.                                                                  *)
PositiveGetIsBoolean ==
    positive.pc = "done" =>
        /\ positive.result \in {"True", "False"}
        /\ positive.result = "True" <=>
             /\ PositiveBecameVisible
             /\ positive.w.elapsed < positive.timeout
        /\ positive.result = "False" <=>
             /\ positive.w.outcome = "TimeoutException"
             /\ positive.w.elapsed >= positive.timeout

PositiveGetWitness ==
    /\ positive.pc = "done"
    /\ positive.key = "positive_element_group"
    /\ positive.result = "False"
    /\ positive.timeout > 1
    /\ Len(positive.pages) = positive.timeout

(* C22: a get of NegativeElement never raises; it returns true only when   *)
(* a lookup made before the deadline found every match not displayed or    *)
(* stale, and returns true without a wait when that lookup matched         *)
(* nothing; it returns false when the wait for a displayed match ran into  *)
(* the deadline all waits share; the time spent never exceeds the context  *)
(* timeout by more than one polling interval of a wait.                    *)
NegativeGetSharedDeadline ==
    /\ negative.elapsed <= negative.timeout + 1
    /\ negative.pc = "done" =>
         /\ negative.result \in {"True", "False"}
         /\ negative.result = "True" =>
              /\ negative.lookup_at < negative.timeout
              /\ Len(negative.passed) = negative.matches
              /\ \A i \in DOMAIN negative.passed :
                    negative.passed[i] \in
                        {"not_displayed", "stale", "stale_in_wait"}
         /\ (~negative.repeated /\ negative.matches = 0) =>
              negative.result = "True" /\ negative.w.polls = 0
         /\ negative.w.outcome = "TimeoutException" =>
              /\ negative.result = "False"
              /\ negative.elapsed >= negative.timeout

(* A stale match is passed over, the wait for the next match times out     *)
(* one interval past the deadline.                                         *)
NegativeGetWitness ==
    /\ negative.pc = "done"
    /\ negative.result = "False"
    /\ negative.timeout > 1
    /\ negative.passed = <<"stale">>
    /\ negative.w.outcome = "TimeoutException"
    /\ negative.elapsed = negative.timeout + 1

(* All matches stale or gone: true. *)
NegativeGoneWitness ==
    /\ negative.pc = "done"
    /\ negative.result = "True"
    /\ negative.passed = <<"stale_in_wait", "not_displayed">>
    /\ negative.lookup_at > 0

(* C23: a RadioSelection set of a name that is no declared option raises   *)
(* the value error, clicks nothing and leaves the current locator as it    *)
(* was; a set of a declared option that returns has clicked the locator of *)
(* that option once and nothing else, and the current locator is then the  *)
(* locator of that option; between calls, as long as no assignment of a    *)
(* declared option has failed, the current locator is the locator of the   *)
(* option assigned last.                                                   *)
RadioSetTracksLocator ==
    /\ (radio.pc = "done" /\ radio.value \notin radio.options) =>
         /\ radio.result = "PageElementValueException"
         /\ radio.clicked = <<>>
         /\ radio.locator = radio.before
    /\ (radio.pc = "done" /\ radio.value \in radio.options
          /\ radio.result = "ok") =>
         /\ radio.clicked = <<radio.value>>
         /\ radio.locator = radio.value
    /\ (radio.pc = "idle" /\ radio.clean /\ radio.last_ok # "none") =>
         radio.locator = radio.last_ok

(* A second successful assignment has moved the locator. *)
RadioSetWitness ==
    /\ radio.pc = "done"
    /\ radio.clean
    /\ radio.result = "ok"
    /\ radio.before \in radio.options
    /\ radio.before # radio.value
    /\ radio.locator = radio.value

(* An undeclared name was refused after a successful assignment. *)
RadioRefusedWitness ==
    /\ radio.pc = "done"
    /\ radio.result = "PageElementValueException"
    /\ radio.last_ok # "none"
    /\ radio.locator = radio.last_ok

(* C24: through the delegator a name declared as a widget resolves to that *)
(* widget and a name the registry class does not bind raises the name      *)
(* error, whose message names the page; through the handler a name that is *)
(* no widget falls through to the page object and from there to its        *)
(* driver, and ends with the attribute or an attribute error, never with   *)
(* the name error.                                                         *)
RegistryLookupResolves ==
    LET res == registry.result
    IN /\ (registry.via = "obj" /\ res.name \in registry.widgets) =>
            res.kind = "widget"
       /\ (registry.via = "obj"
             /\ res.name \notin registry.widgets \cup {"pageobj"}) =>
            res.kind = "SolUiNameError" /\ res.group = "page"
       /\ (registry.via = "el" /\ res.name \notin registry.widgets) =>
            /\ res.kind # "SolUiNameError"
            /\ res.name \in PageAttrs => res.kind = "page_attr"
            /\ res.name \in DriverAttrs => res.kind = "driver_attr"
            /\ res.name = "zz" => res.kind = "AttributeError"

(* A page method asked of the delegator is the name error; a widget is     *)
(* declared next to it.                                                    *)
RegistryNameErrorWitness ==
    /\ registry.pc = "done"
    /\ registry.via = "obj"
    /\ registry.widgets # {}
    /\ registry.result.name \in PageAttrs
    /\ registry.result.kind = "SolUiNameError"

(* A driver attribute reached through the handler. *)
RegistryFallThroughWitness ==
    /\ registry.pc = "done"
    /\ registry.via = "el"
    /\ registry.result.kind = "driver_attr"

(* C25: for every widget kind, a construction from a mapping that holds a  *)
(* key the kind does not recognize fails with the configuration error.     *)
ConstructUnknownKeyIsConfigError ==
    (construct.pc = "done"
       /\ \E key \in construct.config :
             ~ConfigRecognizes(construct.kind, key)) =>
        construct.result = "PageElementYamlException"

(* Polls of the finished wait, made before its timeout elapsed, at which   *)
(* the predicate is truthy.                                                *)
WaitTruthyPolls ==
    {i \in 1..wait.w.timeout : wait.schedule[i] # <<>>}

(* C26: waitUntil invokes the predicate anew at every polling step: a      *)
(* predicate that is first truthy at a later step makes the wait return    *)
(* the answer of that step at that step; a predicate that is never truthy  *)
(* makes it raise the timeout error, and the error is raised when the      *)
(* timeout has elapsed, never before.                                      *)
WaitUntilPollsAnew ==
    /\ wait.w.outcome = "TimeoutException" => wait.w.elapsed >= wait.w.timeout
    /\ wait.pc = "done" =>
         IF WaitTruthyPolls # {}
         THEN LET k == CHOOSE i \in WaitTruthyPolls :
                          \A j \in WaitTruthyPolls : i <= j
              IN /\ wait.w.outcome = "returned"
                 /\ wait.w.polls = k
                 /\ wait.w.value = wait.schedule[k]
                 /\ wait.w.elapsed = k - 1
         ELSE /\ wait.w.outcome = "TimeoutException"
              /\ wait.w.polls = wait.w.timeout

(* The predicate is falsy twice and then truthy; the wait returns the      *)
(* third answer after two intervals.                                       *)
WaitUntilWitness ==
    /\ wait.pc = "done"
    /\ wait.w.outcome = "returned"
    /\ wait.schedule[1] = <<>>
    /\ wait.w.polls = 3
    /\ wait.w.elapsed = 2
    /\ wait.w.value = wait.schedule[3]

(* Timeouts and driver exceptions the retry loop of the dropdown catches.  *)
DropdownTransients ==
    {"TimeoutException", "ElementNotInteractableException",
     "StaleElementReferenceException"}

(* Positions of the log of the dropdown that hold a caught failure. *)
DropdownFailedPasses ==
    {i \in DOMAIN dropdown.log : dropdown.log[i] \in DropdownTransients}

(* Clicks on an option, declared or matched, in the log of the dropdown.   *)
DropdownOptionClicks ==
    Count(dropdown.log, "click_option") + Count(dropdown.log, "click_match")

(* C27: a DropdownSelector set in which every pass of the open-and-match   *)
(* sequence fails with a timeout or a driver exception makes exactly 3     *)
(* passes, sleeps between consecutive passes and nowhere else, and raises  *)
(* the failure of the last pass as it is; a set that succeeds in pass      *)
(* k <= 3 has made exactly k passes and exactly one click on an option.    *)
DropdownRetriesThenRaises ==
    LET log == dropdown.log
        fails == DropdownFailedPasses
    IN /\ (dropdown.pc = "done" /\ fails # {}
             /\ Cardinality(fails) = dropdown.tries) =>
            /\ dropdown.tries = 3
            /\ Count(log, "sleep") = 2
            /\ \A i \in Positions(log, "sleep") :
                  (i - 1) \in fails /\ i < Len(log)
            /\ log[Len(log)] \in DropdownTransients
            /\ dropdown.result = log[Len(log)]
            /\ DropdownOptionClicks = 0
       /\ (dropdown.pc = "done" /\ dropdown.result = "ok") =>
            /\ dropdown.tries \in 1..3
            /\ Cardinality(fails) = dropdown.tries - 1
            /\ Count(log, "sleep") = dropdown.tries - 1
            /\ DropdownOptionClicks = 1
            /\ log[Len(log)] \in {"click_option", "click_match"}

(* Three passes fail in different ways and the last failure is raised. *)
DropdownRetriesWitness ==
    /\ dropdown.pc = "done"
    /\ dropdown.tries = 3
    /\ dropdown.result = "StaleElementReferenceException"
    /\ Count(dropdown.log, "TimeoutException") = 2
    /\ Count(dropdown.log, "click_trigger") >= 1

(* The third pass succeeds. *)
DropdownThirdPassWitness ==
    /\ dropdown.pc = "done"
    /\ dropdown.tries = 3
    /\ dropdown.result = "ok"

(* C28: a set of a Checkbox declared with a separate toggle locator that   *)
(* reads a state other than the target from the read locator gives its one *)
(* click to the element of the toggle locator and none to the element of   *)
(* the read locator.                                                       *)
CheckboxClicksToggleLocator ==
    (checkbox.last.valid /\ checkbox.toggle
       /\ checkbox.last.checked # checkbox.last.target) =>
        /\ Count(checkbox.last.log, "click_toggle") = 1
        /\ Count(checkbox.last.log, "click_locator") = 0

(* |t - n| *)
PagerDistance(t, n) == IF t >= n THEN t - n ELSE n - t

(* C29: in an integer-mode set of a pager with a page group, the element   *)
(* clicked in a pass is the tab of the group whose integer label is        *)
(* nearest to the target, the first in document order among the nearest;   *)
(* a tab labeled with the target itself is the one clicked; neither the    *)
(* previous nor the next button is clicked.                                *)
PagerGroupClicksNearestTab ==
    (PagerIntegerMode /\ pager.page_group_locator) =>
        /\ pager.clicks["previous"] = 0 /\ pager.clicks["next"] = 0
        /\ pager.clicks["key"] = 0
        /\ pager.clicks["tab"] > 0 =>
             LET g == pager.group
                 t == pager.tgtintval
                 least == {i \in DOMAIN g :
                             \A j \in DOMAIN g :
                                PagerDistance(t, ParseInt(g[i])) <=
                                    PagerDistance(t, ParseInt(g[j]))}
                 first == CHOOSE i \in least : \A j \in least : i <= j
             IN /\ g # <<>>
                /\ \A i \in DOMAIN g : IsIntText(g[i])
                /\ pager.clicked = g[first]
                /\ (\E i \in DOMAIN g : g[i] = Str(t)) =>
                      pager.clicked = Str(t)

(* Two tabs at the same distance on either side of the target, the farther *)
(* page number first: the first is clicked.                                *)
PagerGroupTieWitness ==
    /\ PagerIntegerMode /\ pager.page_group_locator
    /\ pager.clicks["tab"] > 0
    /\ pager.tgtintval = 3
    /\ pager.group = <<Str(4), Str(2)>>
    /\ pager.clicked = Str(4)

(* C30: a read of a TableSelection declared with label_parse does not fail *)
(* because the pattern fails on a label: the row of such a label is keyed  *)
(* by the raw text and the read returns the snapshot, unless two rows have *)
(* the same label.                                                         *)
TableParseFailureFallsBack ==
    (table.label_parse # "none" /\ table.snapshot.status # "none") =>
        /\ table.snapshot.status \in {"ok", "PageElementStateException"}
        /\ table.snapshot.status = "ok" =>
             /\ Len(table.snapshot.rows) = Len(table.labels)
             /\ \A i \in DOMAIN table.snapshot.rows :
                   (table.label_parse = "plain"
                      \/ ~LabelParseMatches(table.labels[i])) =>
                       table.snapshot.rows[i].label = table.labels[i]

(* C31: a set on a row of a table without input locator ends with the      *)
(* value error and no click; with the locators, when the idx-th match of   *)
(* each exists, it reads the state of the idx-th input match and clicks    *)
(* the idx-th toggle match once if that state differs from the target and  *)
(* not at all if it equals it; without such a match it ends with the state *)
(* error and no click.                                                     *)
TableRowSetTogglesOnMismatch ==
    (table.rowop.op = "set" /\ TableAtRest) =>
      LET op == table.rowop
          idx == table.snapshot.rows[op.row].idx
      IN IF ~table.selectable
           THEN op.status = "PageElementValueException" /\ op.clicks = <<>>
         ELSE IF idx + 1 > Len(op.before)
           THEN op.status = "PageElementStateException" /\ op.clicks = <<>>
         ELSE /\ op.value = op.before[idx + 1]
              /\ IF op.before[idx + 1] = op.target
                   THEN op.status = "ok" /\ op.clicks = <<>>
                 ELSE IF idx + 1 > table.toggles
                   THEN /\ op.status = "PageElementStateException"
                        /\ op.clicks = <<>>
                   ELSE op.status = "ok" /\ op.clicks = <<idx + 1>>

(* A set on the second row of a selectable table clicked its toggle. *)
TableRowSetWitness ==
    /\ table.rowop.op = "set"
    /\ table.selectable
    /\ table.rowop.status = "ok"
    /\ table.snapshot.rows[table.rowop.row].idx = 1
    /\ table.rowop.clicks = <<2>>

(* A set on a row of a table declared without input locator was refused. *)
TableRowSetRefusedWitness ==
    /\ table.rowop.op = "set"
    /\ ~table.selectable
    /\ table.rowop.status = "PageElementValueException"

(* C33 as stated: a row operation that acts on an element acts on the      *)
(* element of the row that shows the label of the snapshot row, whatever   *)
(* happened to the table since the read, or else fails with the state      *)
(* error.                                                                  *)
TableRowActsOnItsLabel ==
    (table.rowop.op # "none" /\ TableAtRest) =>
      /\ table.rowop.status \in {"ok", "PageElementStateException"}
      /\ (table.rowop.pos # 0) =>
           table.rowop.owner = table.snapshot.rows[table.rowop.row].label
      /\ (table.rowop.clicks # <<>>) =>
           table.rowop.toggled = table.snapshot.rows[table.rowop.row].label

(* C33 amended: each lookup of a row operation takes the match at the      *)
(* position idx of the snapshot row in the table as it is at that lookup,  *)
(* or the operation fails with the state error; a set clicks no other      *)
(* position; and when the table has not changed since the read of the      *)
(* snapshot, the matches taken belong to the row showing the label of the  *)
(* snapshot row.                                                           *)
TableRowActsOnItsPosition ==
    (table.rowop.op # "none" /\ TableAtRest) =>
      LET op == table.rowop
          row == table.snapshot.rows[op.row]
      IN /\ op.status \in {"ok", "PageElementStateException"}
         /\ (op.status = "ok") => (op.pos # 0)
         /\ (op.pos = 0) => (op.status = "PageElementStateException")
         /\ (op.pos # 0) => op.pos = row.idx + 1
         /\ \A i \in DOMAIN op.clicks : op.clicks[i] = row.idx + 1
         /\ (op.pos # 0 /\ ~op.mutated) => op.owner = row.label
         /\ (op.clicks # <<>> /\ ~op.mutated) => op.toggled = row.label

(* After the rows were reordered, a set on the snapshot row "x" read and   *)
(* clicked the elements of the row that now shows "y".                     *)
TableRowMutatedWitness ==
    /\ table.rowop.op = "set"
    /\ table.rowop.mutated
    /\ table.rowop.status = "ok"
    /\ table.rowop.clicks # <<>>
    /\ table.snapshot.rows[table.rowop.row].label = <<"x">>
    /\ table.rowop.owner = <<"y">>
    /\ table.rowop.toggled = <<"y">>

(* The rows were reordered between the read and the click of a set on the  *)
(* snapshot row "x": the set read the input of "x", found it unselected,   *)
(* and clicked the toggle of the row that shows "y" by then, unselecting   *)
(* it.                                                                     *)
TableRowSplitWitness ==
    /\ table.rowop.op = "set"
    /\ table.rowop.status = "ok"
    /\ table.rowop.target /\ ~table.rowop.value
    /\ table.rowop.before = <<FALSE, TRUE>>
    /\ table.snapshot.rows[table.rowop.row].label = <<"x">>
    /\ table.rowop.owner = <<"x">>
    /\ table.rowop.toggled = <<"y">>
    /\ table.rowop.clicks = <<1>>
    /\ table.labels = <<<<"y">>, <<"x">>>>
    /\ table.inputs = <<FALSE, FALSE>>

(* After a row was removed, an operation on a snapshot row found no match  *)
(* at its position.                                                        *)
TableRowGoneWitness ==
    /\ table.rowop.mutated
    /\ table.rowop.status = "PageElementStateException"

(* C32: an integer-mode set without page group to a page past the last     *)
(* page of a pager that shows page numbers ends without raising, whether   *)
(* or not disabled-indicator locators are declared.                        *)
PagerUnreachableTargetReturns ==
    ( /\ pager.pc = "done"
      /\ PagerIntegerMode
      /\ ~pager.page_group_locator
      /\ IsIntText(pager.start)
      /\ pager.tgtintval > MaxPage )
    => pager.result = "ok"

(* C34: a widget read or written through the registry of a page context    *)
(* issues its driver calls to the driver of that context, whatever other   *)
(* contexts of the same page class were constructed before or after it.    *)
RegistryWidgetActsOnOwnContext ==
    (registry.via = "el" /\ registry.result.kind = "widget_get") =>
      registry.result.ctx = registry.from

(* C35: a query that has ended has returned a boolean, and it has returned *)
(* False when one of its driver calls found the element absent or its      *)
(* handle stale.                                                           *)
QueryNeverRaises ==
    (query.pc = "done") =>
      /\ query.result \in {"True", "False"}
      /\ query.missed => query.result = "False"

(* C36: a set of a declared option that fails, because the option never    *)
(* becomes clickable or because the click raises, leaves the current       *)
(* locator as it was before the call; between calls the current locator is *)
(* the locator of the option clicked last.                                 *)
RadioFailedSetKeepsLocator ==
    /\ (radio.pc = "done" /\ radio.value \in radio.options
          /\ radio.result # "ok") =>
         radio.locator = radio.before
    /\ (radio.pc = "idle" /\ radio.last_ok # "none") =>
         radio.locator = radio.last_ok

(* C37: a static-mode DropdownSelector set of a value that is no declared  *)
(* option ends without any click issued to the driver, the click on the    *)
(* dropdown trigger included.                                              *)
DropdownIllegalOptionClicksNothing ==
    ( /\ dropdown.pc = "done"
      /\ ~dropdown.lookup_ctx
      /\ dropdown.value \notin dropdown.options )
    => /\ Count(dropdown.log, "click_trigger") = 0
       /\ DropdownOptionClicks = 0

(* C40: a dynamic-mode DropdownSelector set of a value that is no declared *)
(* option ends with success, with the state error, or with a timeout or    *)
(* driver failure the retry loop gave up on, and with nothing else,        *)
(* whatever the lookup context holds and whether or not the trigger was    *)
(* clicked.                                                                *)
DropdownLookupTypedOutcomes ==
    ( /\ dropdown.pc = "done"
      /\ dropdown.lookup_ctx
      /\ dropdown.value \notin dropdown.options )
    => dropdown.result \in
         {"ok", "PageElementStateException"} \cup DropdownTransients

(* C38: while the widget get of a timed_lookup(t) runs the timeout of the  *)
(* page context is t, and once the call has returned or raised, whatever   *)
(* the widget get did, the timeout is what it was before the call.         *)
TimedLookupRestoresTimeout ==
    /\ (timed.pc = "get") => timed.timeout = timed.t
    /\ (timed.pc \in {"finally", "done"}) => timed.seen = timed.t
    /\ (timed.pc = "done") => timed.timeout = timed.before

(* A lookup with a timeout other than the context's raised the timeout of  *)
(* its widget get and left the context's timeout as it was.                *)
TimedLookupWitness ==
    /\ timed.pc = "done"
    /\ timed.result = "TimeoutException"
    /\ timed.t # timed.before
    /\ timed.seen = timed.t
    /\ timed.timeout = timed.before

(* Clicks a finished click() has delivered to the button, ordinary and     *)
(* forced.                                                                 *)
ButtonDelivered ==
    Count(button.log, "click") + Count(button.log, "force_click")

(* C39: a click() that has returned delivered exactly one click to the     *)
(* button, an ordinary one or a force-click and never both, whatever       *)
(* attempts failed before and whatever retry_attempts was; a click() that  *)
(* has raised delivered none: a force-click that raised clicked nothing.   *)
ButtonClickDeliversOnce ==
    (button.pc = "done") =>
      IF button.result = "ok"
        THEN ButtonDelivered = 1
        ELSE ButtonDelivered = 0

(* A click() returned after failed attempts and one force-click. *)
ButtonForcedOnceWitness ==
    /\ button.pc = "done"
    /\ button.result = "ok"
    /\ button.arg_attempts >= 2
    /\ Count(button.log, "force_click") = 1
    /\ Count(button.log, "click") = 0

(* A click() returned after a failed attempt and one ordinary click. *)
ButtonRetriedOnceWitness ==
    /\ button.pc = "done"
    /\ button.result = "ok"
    /\ Count(button.log, "sleep") >= 1
    /\ Count(button.log, "click") = 1
    /\ Count(button.log, "force_click") = 0

=============================================================================
